---- MODULE Spec2Model ----
(***************************************************************************)
(* Model of FrameInterface (src/src/connect/frame_interface.py): the      *)
(* device session, the photo pipeline and the event loop.                  *)
(*                                                                         *)
(* The interface runs on asyncio: code between two awaits is atomic, and   *)
(* another task may run at every await.  A task's pc names the await it is *)
(* suspended on; one action resumes one task from its await, with the      *)
(* outcome of the awaited call, and runs the code up to the next await.    *)
(* The code blocks are operators from a state record to a state record, so *)
(* that a block can call the next one as the code does.                    *)
(***************************************************************************)
EXTENDS Integers, Sequences, FiniteSets, TLC

\* ------------------------------------------------------------------ bounds
MaxRetries == 1     \* largest max_retries a caller passes to connect()
MaxConnects == 2    \* SpecConnect: calls of connect() / disconnect()
MaxOps == 3         \* SpecSeq: operations the calling task starts
MaxLoopOps == 2     \* Spec: operations the calling task starts
MaxRaceOps == 4     \* SpecRace: operations the calling task starts
MaxFaults == 1      \* Spec, SpecSeq, SpecRace: device calls that fail or time out
MaxPhotos == 3      \* photos the device sends in one behaviour
MaxTaps == 2        \* taps on the device in one behaviour
MaxSamples == 3     \* SpecTap: sensor samples given to _detect_light_tap
MaxBackoffRetries == 3  \* SpecBackoff: largest max_retries passed to connect()

\* ------------------------------------------------------- program constants
DefaultResolution == 720
MinPhotoBytes == 1000
LoopMaxRetries == 3
max_text_length == 50

\* HapticDetector: readings and thresholds in tenths (0.8 is 8), times in
\* seconds
accel_threshold == 8
gyro_threshold == 8
touch_cooldown == 15
UpperBound == 50        \* total_accel_change < 5.0
MinimumChange == 20     \* total_accel_change > 2.0
MaximumGyro == 3        \* gyro_magnitude < 0.3
AxisFloor == 8          \* accel_change_x > 0.8 or ...
ClockStart == 1700000000    \* time.time() when the detector is made

Tasks == {"caller", "loop"}
None == 0           \* self.frame / self.photo_queue / a missing value
Handle == 1         \* a FrameMsg object

PhotoSizes == {MinPhotoBytes - 1, MinPhotoBytes}
Resolutions == {None, DefaultResolution, 1080}

\* What the device prints for the battery/memory query, split on " / ".
FullReply == <<"85", "45.2">>
StatusReplies == {<<>>, FullReply, <<"n/a", "45.2">>, <<"85">>}

VARIABLES
    frame,                  \* self.frame: None or Handle
    rx_photo,               \* self.rx_photo is set
    photo_queue,            \* self.photo_queue: None or the id of a queue
    is_connected,
    is_running,
    connection_retry_count,
    capture_count,
    last_capture_time,      \* None, or the id of the photo whose capture set it
    last_battery_level,     \* None or the parsed level
    last_memory_usage,      \* "" or the reported text
    pc,                     \* per task: the await it is suspended on
    ret,                    \* per task: the callers to return to, innermost first
    cx,                     \* per task: locals of its connect() call
    lv,                     \* per task: locals of its other calls
    result,                 \* per task: what its last finished call returned
    g,                      \* per task: history of its current operation / iteration
    queues,                 \* the asyncio.Queue objects: id -> items
    attached,               \* the queue the RxPhoto receiver feeds, or None
    dev,                    \* the device: requests to serve, photos/lines made
    print_responses,        \* the SDK's buffer of unsolicited print lines
    opsLeft,                \* operations the calling task may still start
    faultsLeft,             \* device calls that may still fail
    hd                      \* the HapticDetector object and its monitoring task

vars == <<frame, rx_photo, photo_queue, is_connected, is_running,
          connection_retry_count, capture_count, last_capture_time,
          last_battery_level, last_memory_usage, pc, ret, cx, lv, result, g,
          queues, attached, dev, print_responses, opsLeft, faultsLeft, hd>>

\* The state as one record, for the code blocks below.
S == [frame |-> frame, rx_photo |-> rx_photo, photo_queue |-> photo_queue,
      is_connected |-> is_connected, is_running |-> is_running,
      connection_retry_count |-> connection_retry_count,
      capture_count |-> capture_count, last_capture_time |-> last_capture_time,
      last_battery_level |-> last_battery_level,
      last_memory_usage |-> last_memory_usage,
      pc |-> pc, ret |-> ret, cx |-> cx, lv |-> lv, result |-> result, g |-> g,
      queues |-> queues, attached |-> attached, dev |-> dev,
      print_responses |-> print_responses, opsLeft |-> opsLeft,
      faultsLeft |-> faultsLeft, hd |-> hd]

Commit(n) ==
    /\ frame' = n.frame
    /\ rx_photo' = n.rx_photo
    /\ photo_queue' = n.photo_queue
    /\ is_connected' = n.is_connected
    /\ is_running' = n.is_running
    /\ connection_retry_count' = n.connection_retry_count
    /\ capture_count' = n.capture_count
    /\ last_capture_time' = n.last_capture_time
    /\ last_battery_level' = n.last_battery_level
    /\ last_memory_usage' = n.last_memory_usage
    /\ pc' = n.pc
    /\ ret' = n.ret
    /\ cx' = n.cx
    /\ lv' = n.lv
    /\ result' = n.result
    /\ g' = n.g
    /\ queues' = n.queues
    /\ attached' = n.attached
    /\ dev' = n.dev
    /\ print_responses' = n.print_responses
    /\ opsLeft' = n.opsLeft
    /\ faultsLeft' = n.faultsLeft
    /\ hd' = n.hd

\* ----------------------------------------------------------------- values
QueueIds == 1..5
NoPhoto == [id |-> 0, size |-> 0, cause |-> ""]
NoMeta == [resolution |-> 0, size_bytes |-> 0, capture_count |-> 0,
           triggered_by |-> ""]
NoResult == [op |-> "", success |-> FALSE, error |-> "", retry_count |-> 0,
             image |-> NoPhoto, meta |-> NoMeta, connected |-> FALSE,
             running |-> FALSE, battery_level |-> None, memory_usage |-> "",
             connection_retries |-> 0, capture_count |-> 0,
             text_displayed |-> <<>>, original_text |-> <<>>,
             truncated |-> FALSE]
NoCx == [active |-> FALSE, attempt |-> 0, max_retries |-> 0, last_error |-> "",
         pending |-> NoResult, trace |-> <<>>, steps |-> <<>>]
NoLv == [op |-> "", resolution |-> None, text |-> <<>>, shown |-> <<>>,
         x |-> 1, y |-> 1, wq |-> None, image |-> NoPhoto, meta |-> NoMeta,
         base |-> NoResult, lines |-> <<>>, method |-> 1, stale |-> FALSE,
         tasks |-> 0,
         err |-> "", prev |-> ""]
\* What a call found when it began: the fields its contract speaks of.
NoBefore == [is_connected |-> FALSE, frame |-> None, photo_queue |-> None,
             is_running |-> FALSE, connection_retry_count |-> 0,
             capture_count |-> 0, last_capture_time |-> None]
\* The arguments of a display_text call.
NoArgs == [text |-> <<>>, position_x |-> 1, position_y |-> 1]
NoG == [log |-> <<>>, startq |-> <<>>, added |-> FALSE, disturbed |-> FALSE,
        stopped |-> FALSE, arg |-> None, args |-> NoArgs, before |-> NoBefore]

\* One entry of a history: a device I/O issued, a handler invoked, a sleep.
Ev(k, n, m) == [k |-> k, n |-> n, m |-> m, meta |-> NoMeta]
EvPhoto(photo, meta) ==
    [k |-> "photo", n |-> photo.id, m |-> meta.triggered_by, meta |-> meta]

Pow2(n) == 2 ^ n

Range(q) == {q[i] : i \in DOMAIN q}
CountKind(log, k) == Cardinality({i \in DOMAIN log : log[i].k = k})
SelectKind(log, k) == SelectSeq(log, LAMBDA e : e.k = k)

\* Appends to a history.  Inside connect(): the device calls go to the steps
\* of the current attempt, the rest to the trace of the call.  Outside: to the
\* log of the task's operation (the caller) or iteration (the loop).
Log(s, t, e) ==
    IF ~s.cx[t].active THEN [s EXCEPT !.g[t].log = Append(@, e)]
    ELSE IF e.k = "io" THEN [s EXCEPT !.cx[t].steps = Append(@, e)]
    ELSE [s EXCEPT !.cx[t].trace = Append(@, e)]

\* The trace of a connect() call keeps the message of its latest error only.
ForgetMessages(trace) ==
    [i \in DOMAIN trace |->
        IF trace[i].k = "error" THEN [trace[i] EXCEPT !.m = ""] ELSE trace[i]]

\* A device call is issued: the task suspends on it at label l.
Await(s, t, l, io) == [Log(s, t, Ev("io", 0, io)) EXCEPT !.pc[t] = l]

\* Returning from a call: the caller's continuation runs in the same step.
Return(s, t, r) == [s EXCEPT !.pc[t] = "return", !.result[t] = r]

\* _safe_callback: invokes the handler and swallows what it raises.  The
\* handler may suspend; the caller resumes at label l.
safe_callback(s, t, kind, n, m, l) ==
    [Log(s, t, Ev(kind, n, m)) EXCEPT !.pc[t] = l]

\* A handler's exception leaving _safe_callback: the operation that invoked
\* the handler would take its own failure path.
safe_callback_reraise(s, t) ==
    [Log(s, t, Ev("callback_error", 0, "")) EXCEPT !.lv[t].err = "Callback error"]

\* _safe_callback, the except clause: what the handler raised is logged and
\* nothing else happens; the caller resumes at its label as after a normal
\* return.
safe_callback_except(s, t) == Log(s, t, Ev("callback_error", 0, ""))

\* Calling: the continuation k is pushed; the callee ends with Return.
Call(s, t, k) == [s EXCEPT !.ret[t] = <<k>> \o @]

\* ------------------------------------------------------------ display_text
ConnectedText == <<"C", "o", "n", "n", "e", "c", "t", "e", "d", "!">>
Rep(c, n) == [i \in 1..n |-> c]

\* str.strip() leaves nothing exactly when every character is white space.
StripsToEmpty(text) == \A i \in DOMAIN text : text[i] = " "

NotConnected(s) == ~s.is_connected \/ s.frame = None

\* display_text validating position_x only
display_text_x_only(s, t, text0, position_x, position_y) ==
    IF NotConnected(s)
    THEN Return(s, t, [NoResult EXCEPT !.op = "display_text",
                           !.error = "Not connected to Frame glasses"])
    ELSE IF position_x < 1
    THEN Return(s, t, [NoResult EXCEPT !.op = "display_text",
                           !.error = "Position coordinates must be positive integers"])
    ELSE LET text == IF StripsToEmpty(text0) THEN <<" ">> ELSE text0
             shown == IF Len(text) > max_text_length
                      THEN SubSeq(text, 1, max_text_length) ELSE text
             s1 == [s EXCEPT !.lv[t].text = text, !.lv[t].shown = shown,
                             !.lv[t].x = position_x, !.lv[t].y = position_y]
         IN  Await(s1, t, "t_send", "send_message 0x11")

display_text(s, t, text0, position_x, position_y) ==
    IF NotConnected(s)
    THEN Return(s, t, [NoResult EXCEPT !.op = "display_text",
                           !.error = "Not connected to Frame glasses"])
    ELSE IF position_x < 1 \/ position_y < 1
    THEN Return(s, t, [NoResult EXCEPT !.op = "display_text",
                           !.error = "Position coordinates must be positive integers"])
    ELSE LET text == IF StripsToEmpty(text0) THEN <<" ">> ELSE text0
             shown == IF Len(text) > max_text_length
                      THEN SubSeq(text, 1, max_text_length) ELSE text
             s1 == [s EXCEPT !.lv[t].text = text, !.lv[t].shown = shown,
                             !.lv[t].x = position_x, !.lv[t].y = position_y]
         IN  Await(s1, t, "t_send", "send_message 0x11")

\* resumed from frame.send_message(0x11, ...)
display_text_sent(s, t, ok) ==
    IF ok
    THEN Return(s, t, [NoResult EXCEPT !.op = "display_text", !.success = TRUE,
                           !.text_displayed = s.lv[t].shown,
                           !.original_text = s.lv[t].text,
                           !.truncated = Len(s.lv[t].text) > max_text_length])
    ELSE safe_callback(s, t, "error", 0, "send_message failed", "t_errcb")

\* display_text_failed marking the session as no longer connected
display_text_failed_degraded(s, t) ==
    Return([s EXCEPT !.is_connected = FALSE], t,
           [NoResult EXCEPT !.op = "display_text", !.error = "send_message failed"])

\* resumed from the error handler
display_text_failed(s, t) ==
    Return(s, t, [NoResult EXCEPT !.op = "display_text",
                      !.error = "send_message failed"])

\* -------------------------------------------------------------- get_status
IsFloat(p) == p \in {"85"}
FloatOf(p) == IF p = "85" THEN 85 ELSE 0

\* parts = batt_mem.split(' / '); float(parts[0]) raising ValueError sets nothing
parse_status(s, reply) ==
    IF Len(reply) = 2 /\ IsFloat(reply[1])
    THEN [s EXCEPT !.last_battery_level = FloatOf(reply[1]),
                   !.last_memory_usage = reply[2]]
    ELSE s

base_status(s) ==
    [NoResult EXCEPT !.op = "get_status", !.connected = s.is_connected,
                     !.running = s.is_running,
                     !.connection_retries = s.connection_retry_count,
                     !.capture_count = s.capture_count]

WithCached(s, r) ==
    [r EXCEPT !.battery_level = s.last_battery_level,
              !.memory_usage = s.last_memory_usage]

get_status(s, t) ==
    IF NotConnected(s)
    THEN Return(s, t, WithCached(s, base_status(s)))
    ELSE Await([s EXCEPT !.lv[t].base = base_status(s)], t, "s_query", "send_lua")

\* resumed from frame.send_lua(...)
get_status_replied(s, t, ok, reply) ==
    IF ok
    THEN LET s1 == parse_status(s, reply)
             s2 == [s1 EXCEPT !.lv[t].base = WithCached(s1, s.lv[t].base)]
         IN  safe_callback(s2, t, "status", 0, "", "s_cb")
    ELSE Return(s, t, [WithCached(s, s.lv[t].base) EXCEPT !.error = "send_lua failed"])

\* resumed from the status handler
get_status_done(s, t) == Return(s, t, s.lv[t].base)

\* ---------------------------------------------------- request_frame_status
request_frame_status(s, t) ==
    IF NotConnected(s)
    THEN Return(s, t, [WithCached(s, NoResult) EXCEPT !.op = "request_frame_status",
                           !.error = "Not connected to Frame glasses"])
    ELSE Await(s, t, "r_send", "send_message 0x13")

\* resumed from frame.send_message(0x13, b'')
request_frame_status_sent(s, t, ok) ==
    IF ok
    THEN [Log(s, t, Ev("sleep", 0, "0.1")) EXCEPT !.pc[t] = "r_sleep"]
    ELSE safe_callback(s, t, "error", 0, "send_message failed", "r_errcb")

\* resumed from asyncio.sleep(0.1)
request_frame_status_slept(s, t) == get_status(Call(s, t, "r_status"), t)

\* get_status() has returned into request_frame_status
request_frame_status_done(s, t) ==
    Return(s, t, [s.result[t] EXCEPT !.op = "request_frame_status", !.success = TRUE])

\* resumed from the error handler
request_frame_status_failed(s, t) ==
    Return(s, t, [WithCached(s, NoResult) EXCEPT !.op = "request_frame_status",
                      !.error = "send_message failed"])

\* ------------------------------------------------------------- photo queue
\* The tasks suspended in queue.get() hold the queue they wait on.
Waiting(s, t) == s.pc[t] \in {"p_wait", "c_val_wait"}
QueuesInUse(s) ==
    ({s.photo_queue, s.attached} \cup {s.lv[t].wq : t \in {u \in Tasks : Waiting(s, u)}})
        \ {None}

\* rx_photo.attach() makes a new asyncio.Queue.
NewQueue(s) == CHOOSE q \in QueueIds \ QueuesInUse(s) :
                   \A r \in QueueIds \ QueuesInUse(s) : q <= r

\* A queue nothing refers to any more is gone, with what it held.
Collect(s) ==
    [s EXCEPT !.queues = [q \in QueueIds |->
                             IF q \in QueuesInUse(s) THEN s.queues[q] ELSE <<>>]]

Items(s) == IF s.photo_queue = None THEN <<>> ELSE s.queues[s.photo_queue]

\* ----------------------------------------------------------- capture_photo
capture_photo(s, t, resolution) ==
    IF NotConnected(s)
    THEN Return(s, t, [NoResult EXCEPT !.op = "capture_photo",
                           !.error = "Not connected to Frame glasses"])
    ELSE IF s.photo_queue = None
    THEN Return(s, t, [NoResult EXCEPT !.op = "capture_photo",
                           !.error = "Photo capture system not initialized"])
    ELSE LET capture_resolution ==
                 IF resolution # None THEN resolution ELSE DefaultResolution
         IN  Await([s EXCEPT !.lv[t].resolution = capture_resolution],
                   t, "p_send", "send_message 0x0d")

capture_photo_except(s, t, e) ==
    safe_callback([s EXCEPT !.lv[t].err = e], t, "error", 0, e, "p_errcb")

\* resumed from frame.send_message(0x0d, ...): now self.photo_queue.get()
capture_photo_sent(s, t, ok) ==
    IF ~ok THEN capture_photo_except(s, t, "send_message failed")
    ELSE LET s1 == [s EXCEPT !.dev.req = @ + 1]
         IN  IF s1.photo_queue = None
             THEN capture_photo_except(s1, t, "NoneType has no attribute get")
             ELSE [s1 EXCEPT !.lv[t].wq = s1.photo_queue, !.pc[t] = "p_wait"]

\* capture_photo_received stamping the photo as the event loop does
capture_photo_received_tap(s, t) ==
    LET q == s.lv[t].wq
        jpeg_bytes == Head(s.queues[q])
        metadata == [resolution |-> DefaultResolution,
                     size_bytes |-> jpeg_bytes.size,
                     capture_count |-> s.capture_count + 1,
                     triggered_by |-> "tap"]
        s1 == [s EXCEPT !.queues[q] = Tail(@),
                        !.last_capture_time = jpeg_bytes.id,
                        !.capture_count = @ + 1,
                        !.lv[t].wq = None,
                        !.lv[t].image = jpeg_bytes,
                        !.lv[t].meta = metadata]
    IN  [Log(s1, t, EvPhoto(jpeg_bytes, metadata)) EXCEPT !.pc[t] = "p_cb"]

\* capture_photo_received leaving capture_count as it was
capture_photo_received_uncounted(s, t) ==
    LET q == s.lv[t].wq
        jpeg_bytes == Head(s.queues[q])
        metadata == [resolution |-> s.lv[t].resolution,
                     size_bytes |-> jpeg_bytes.size,
                     capture_count |-> s.capture_count,
                     triggered_by |-> "manual"]
        s1 == [s EXCEPT !.queues[q] = Tail(@),
                        !.last_capture_time = jpeg_bytes.id,
                        !.lv[t].wq = None,
                        !.lv[t].image = jpeg_bytes,
                        !.lv[t].meta = metadata]
    IN  [Log(s1, t, EvPhoto(jpeg_bytes, metadata)) EXCEPT !.pc[t] = "p_cb"]

\* resumed from queue.get() with a payload
capture_photo_received(s, t) ==
    LET q == s.lv[t].wq
        jpeg_bytes == Head(s.queues[q])
        metadata == [resolution |-> s.lv[t].resolution,
                     size_bytes |-> jpeg_bytes.size,
                     capture_count |-> s.capture_count + 1,
                     triggered_by |-> "manual"]
        s1 == [s EXCEPT !.queues[q] = Tail(@),
                        !.last_capture_time = jpeg_bytes.id,
                        !.capture_count = @ + 1,
                        !.lv[t].wq = None,
                        !.lv[t].image = jpeg_bytes,
                        !.lv[t].meta = metadata]
    IN  [Log(s1, t, EvPhoto(jpeg_bytes, metadata)) EXCEPT !.pc[t] = "p_cb"]

\* resumed from the photo handler
capture_photo_done(s, t) ==
    Return(s, t, [NoResult EXCEPT !.op = "capture_photo", !.success = TRUE,
                      !.image = s.lv[t].image, !.meta = s.lv[t].meta])

\* capture_photo_timeout counting the capture that never arrived
capture_photo_timeout_counted(s, t) ==
    Return([s EXCEPT !.lv[t].wq = None, !.capture_count = @ + 1], t,
           [NoResult EXCEPT !.op = "capture_photo",
                !.error = "Timeout waiting for photo capture"])

\* asyncio.TimeoutError out of wait_for(..., timeout=10.0)
capture_photo_timeout(s, t) ==
    Return([s EXCEPT !.lv[t].wq = None], t,
           [NoResult EXCEPT !.op = "capture_photo",
                !.error = "Timeout waiting for photo capture"])

\* resumed from the error handler
capture_photo_failed(s, t) ==
    Return(s, t, [NoResult EXCEPT !.op = "capture_photo",
                      !.error = s.lv[t].err])

\* ----------------------------------------------------------------- connect
\* for attempt in range(max_retries + 1): self.frame = FrameMsg();
\* await self.frame.connect().  The new FrameMsg has its own print buffer and
\* the receiver of the previous one is no longer fed.
connect_attempt(s, t) ==
    LET s1 == [s EXCEPT !.frame = Handle, !.attached = None,
                        !.print_responses = <<>>, !.dev.responses = <<>>,
                        !.dev.buffer = <<>>, !.lv["loop"].stale = TRUE,
                        !.cx[t].steps = <<>>]
    IN  Await(Log(s1, t, Ev("attempt", s.cx[t].attempt, "")), t, "c_connect", "connect")

connect(s, t, max_retries) ==
    connect_attempt([s EXCEPT !.cx[t] = [NoCx EXCEPT !.active = TRUE,
                                             !.max_retries = max_retries]], t)

\* connect_except keeping the first error of the call instead of the last
connect_except_first(s, t, e) ==
    LET s1 == [s EXCEPT !.cx[t].last_error = IF @ = "" THEN e ELSE @,
                        !.connection_retry_count = @ + 1,
                        !.cx[t].trace = ForgetMessages(@)]
    IN  safe_callback(s1, t, "error", s.cx[t].attempt, e, "c_errcb")

\* except Exception as e: count it, tell the error handler
connect_except(s, t, e) ==
    LET s1 == [s EXCEPT !.cx[t].last_error = e,
                        !.connection_retry_count = @ + 1,
                        !.cx[t].trace = ForgetMessages(@)]
    IN  safe_callback(s1, t, "error", s.cx[t].attempt, e, "c_errcb")

\* the next device call of the attempt dereferences self.frame
connect_step(s, t, l, io) ==
    IF s.frame = None
    THEN connect_except(s, t, "NoneType has no attribute")
    ELSE Await(s, t, l, io)

\* resumed from frame.connect()
connect_linked(s, t, ok) ==
    IF ok THEN connect_step(s, t, "c_battery", "send_lua")
    ELSE connect_except(s, t, "connect failed")

\* resumed from frame.send_lua(battery / memory)
connect_battery(s, t, ok, reply) ==
    IF ok THEN connect_step(parse_status(s, reply), t, "c_init_text", "print_short_text")
    ELSE connect_except(s, t, "send_lua failed")

\* resumed from frame.print_short_text('Initializing...')
connect_init_text(s, t, ok) ==
    IF ok THEN connect_step(s, t, "c_libs", "upload_stdlua_libs")
    ELSE connect_except(s, t, "print_short_text failed")

\* resumed from frame.upload_stdlua_libs(): _upload_tap_handler_app()
connect_libs(s, t, ok) ==
    IF ~ok THEN connect_except(s, t, "upload_stdlua_libs failed")
    ELSE IF s.frame = None
    THEN connect_except(s, t, "Frame connection not established")
    ELSE Await(s, t, "c_app", "upload_frame_app")

\* resumed from frame.upload_frame_app(): attach_print_response_handler(),
\* then await frame.start_frame_app()
connect_app(s, t, ok) ==
    IF ok THEN connect_step(s, t, "c_start", "start_frame_app")
    ELSE connect_except(s, t, "upload_frame_app failed")

\* resumed from frame.start_frame_app(): self.rx_photo = RxPhoto(),
\* then await self.rx_photo.attach(self.frame)
connect_started(s, t, ok) ==
    IF ok THEN connect_step([s EXCEPT !.rx_photo = TRUE], t, "c_attach", "rx_photo.attach")
    ELSE connect_except(s, t, "start_frame_app failed")

\* _validate_photo_system up to its capture request
validate_photo_system(s, t) ==
    IF s.frame = None
    THEN connect_except(s, t, "Frame connection not established")
    ELSE IF s.photo_queue = None
    THEN connect_except(s, t, "Photo queue not initialized")
    ELSE Await(s, t, "c_val_send", "send_message 0x0d")

\* resumed from rx_photo.attach(): self.photo_queue = the queue it made
connect_attached(s, t, ok, made) ==
    IF ~ok THEN connect_except(s, t, "rx_photo.attach failed")
    ELSE IF ~made
    THEN connect_except([s EXCEPT !.photo_queue = None], t,
                        "Failed to initialize photo capture queue")
    ELSE LET q == NewQueue(s)
         IN  validate_photo_system(
                 [s EXCEPT !.photo_queue = q, !.attached = q, !.queues[q] = <<>>], t)

\* A validation that does not wait for the photo it requested.
validate_sent_unawaited(s, t, ok) == [s EXCEPT !.pc[t] = "c_val_cb"]

\* resumed from the validation send_message(0x0d): wait_for(queue.get(), 15.0)
validate_sent(s, t, ok) ==
    IF ~ok THEN connect_except(s, t, "Photo capture validation failed: send_message")
    ELSE LET s1 == [s EXCEPT !.dev.req = @ + 1]
         IN  IF s1.photo_queue = None
             THEN connect_except(s1, t, "Photo capture validation failed: NoneType")
             ELSE [s1 EXCEPT !.lv[t].wq = s1.photo_queue, !.pc[t] = "c_val_wait"]

\* validate_received counting the payload before it looks at its size
validate_received_counting(s, t) ==
    LET q == s.lv[t].wq
        jpeg_bytes == Head(s.queues[q])
        s0 == [s EXCEPT !.queues[q] = Tail(@), !.lv[t].wq = None,
                        !.last_capture_time = jpeg_bytes.id,
                        !.capture_count = @ + 1]
        metadata == [resolution |-> DefaultResolution,
                     size_bytes |-> jpeg_bytes.size,
                     capture_count |-> s.capture_count + 1,
                     triggered_by |-> "validation"]
    IN  IF jpeg_bytes.size < MinPhotoBytes
        THEN connect_except(s0, t, "Photo capture validation failed: Invalid photo data")
        ELSE [Log(s0, t, EvPhoto(jpeg_bytes, metadata)) EXCEPT !.pc[t] = "c_val_cb"]

\* resumed from queue.get() with the validation payload
validate_received(s, t) ==
    LET q == s.lv[t].wq
        jpeg_bytes == Head(s.queues[q])
        s0 == [s EXCEPT !.queues[q] = Tail(@), !.lv[t].wq = None]
        metadata == [resolution |-> DefaultResolution,
                     size_bytes |-> jpeg_bytes.size,
                     capture_count |-> s.capture_count + 1,
                     triggered_by |-> "validation"]
        s1 == [s0 EXCEPT !.last_capture_time = jpeg_bytes.id,
                         !.capture_count = @ + 1]
    IN  IF jpeg_bytes.size < MinPhotoBytes
        THEN connect_except(s0, t, "Photo capture validation failed: Invalid photo data")
        ELSE [Log(s1, t, EvPhoto(jpeg_bytes, metadata)) EXCEPT !.pc[t] = "c_val_cb"]

\* asyncio.TimeoutError out of the validation wait
validate_timeout(s, t) ==
    connect_except([s EXCEPT !.lv[t].wq = None], t,
                   "Timeout waiting for photo capture during validation")

\* resumed from the photo handler: await asyncio.sleep(auto_exposure_delay)
connect_validated(s, t) ==
    [Log(s, t, Ev("sleep", 0, "auto_exposure_delay")) EXCEPT !.pc[t] = "c_settle"]

\* connect_settled leaving the retry counter as the failed attempts left it
connect_settled_counting(s, t) ==
    LET s0 == Log(s, t, Ev("connected", s.cx[t].attempt, ""))
        s1 == [s0 EXCEPT !.is_connected = TRUE]
        success_result == [NoResult EXCEPT !.op = "connect", !.success = TRUE,
                               !.battery_level = s.last_battery_level,
                               !.memory_usage = s.last_memory_usage]
        s2 == [s1 EXCEPT !.cx[t].pending = success_result]
    IN  display_text(Call(s2, t, "c_display"), t, ConnectedText, 1, 1)

\* resumed from the settle sleep: the attempt has succeeded
connect_settled(s, t) ==
    LET s0 == Log(s, t, Ev("connected", s.cx[t].attempt, ""))
        s1 == [s0 EXCEPT !.is_connected = TRUE, !.connection_retry_count = 0]
        success_result == [NoResult EXCEPT !.op = "connect", !.success = TRUE,
                               !.battery_level = s.last_battery_level,
                               !.memory_usage = s.last_memory_usage]
        s2 == [s1 EXCEPT !.cx[t].pending = success_result]
    IN  display_text(Call(s2, t, "c_display"), t, ConnectedText, 1, 1)

\* display_text("Connected!") has returned: return success_result
connect_done(s, t) ==
    Return([s EXCEPT !.cx[t].active = FALSE], t, s.cx[t].pending)

\* connect_after_errcb retrying once more than max_retries allows
connect_after_errcb_again(s, t) ==
    IF s.cx[t].attempt <= s.cx[t].max_retries
    THEN [Log(s, t, Ev("sleep", Pow2(s.cx[t].attempt), "backoff"))
             EXCEPT !.pc[t] = "c_backoff"]
    ELSE Return([s EXCEPT !.cx[t].active = FALSE], t,
                [NoResult EXCEPT !.op = "connect", !.error = s.cx[t].last_error,
                                 !.retry_count = s.connection_retry_count])

\* connect_after_errcb backing off linearly: attempt + 1 seconds
connect_after_errcb_linear(s, t) ==
    IF s.cx[t].attempt < s.cx[t].max_retries
    THEN [Log(s, t, Ev("sleep", s.cx[t].attempt + 1, "backoff"))
             EXCEPT !.pc[t] = "c_backoff"]
    ELSE Return([s EXCEPT !.cx[t].active = FALSE], t,
                [NoResult EXCEPT !.op = "connect", !.error = s.cx[t].last_error,
                                 !.retry_count = s.connection_retry_count])

\* resumed from the error handler: back off and retry, or give up
connect_after_errcb(s, t) ==
    IF s.cx[t].attempt < s.cx[t].max_retries
    THEN [Log(s, t, Ev("sleep", Pow2(s.cx[t].attempt), "backoff"))
             EXCEPT !.pc[t] = "c_backoff"]
    ELSE Return([s EXCEPT !.cx[t].active = FALSE], t,
                [NoResult EXCEPT !.op = "connect", !.error = s.cx[t].last_error,
                                 !.retry_count = s.connection_retry_count])

\* resumed from the backoff sleep: the next attempt
connect_retry(s, t) ==
    connect_attempt([s EXCEPT !.cx[t].attempt = @ + 1], t)

\* -------------------------------------------------------------- disconnect
disconnect_except(s, t, e) == safe_callback(s, t, "error", 0, e, "d_errcb")

\* Reset state
disconnect_reset(s) ==
    [s EXCEPT !.is_connected = FALSE, !.frame = None, !.rx_photo = FALSE,
              !.photo_queue = None]

disconnect(s, t, detached) ==
    LET s0 == [s EXCEPT !.is_running = FALSE]
        hasRx == s0.rx_photo /\ s0.frame # None
        s1 == IF hasRx
              THEN [Log(s0, t, Ev("io", 0, "rx_photo.detach")) EXCEPT !.attached = None]
              ELSE s0
    IN  IF hasRx /\ ~detached THEN disconnect_except(s1, t, "rx_photo.detach failed")
        ELSE IF s1.frame # None THEN Await(s1, t, "d_stop_app", "stop_frame_app")
        ELSE Return(disconnect_reset(s1), t, [NoResult EXCEPT !.op = "disconnect"])

\* resumed from frame.stop_frame_app(): await self.frame.disconnect()
disconnect_stopped(s, t, ok) ==
    IF ~ok THEN disconnect_except(s, t, "stop_frame_app failed")
    ELSE IF s.frame = None THEN disconnect_except(s, t, "NoneType has no attribute")
    ELSE Await(s, t, "d_close", "disconnect")

\* resumed from frame.disconnect(): the link is closed, no payload arrives
\* any more
disconnect_closed(s, t, ok) ==
    IF ok THEN Return(disconnect_reset([s EXCEPT !.attached = None]), t,
                      [NoResult EXCEPT !.op = "disconnect"])
    ELSE disconnect_except(s, t, "disconnect failed")

\* resumed from the error handler
disconnect_failed(s, t) == Return(s, t, [NoResult EXCEPT !.op = "disconnect"])

\* -------------------------------------------------------------------- stop
stop(s, t, detached) ==
    disconnect(Call([s EXCEPT !.is_running = FALSE], t, "x_stop"), t, detached)

\* disconnect() has returned into stop()
stop_done(s, t) == Return(s, t, [NoResult EXCEPT !.op = "stop"])

\* ---------------------------------------------------------- run_event_loop
L == "loop"

\* finally: self.is_running = False
loop_exit(s) == [s EXCEPT !.is_running = FALSE, !.pc[L] = "l_exited"]

\* await asyncio.sleep(0.02 if tasks_performed > 0 else 0.05)
loop_sleep(s) ==
    [Log(s, L, Ev("sleep", s.lv[L].tasks, IF s.lv[L].tasks > 0 THEN "0.02" ELSE "0.05"))
        EXCEPT !.pc[L] = "l_iter_end"]

\* Connection health check with automatic recovery
loop_health(s) ==
    IF ~s.is_connected THEN connect(Call(s, L, "l_reconnect"), L, LoopMaxRetries)
    ELSE loop_sleep(s)

\* connect() has returned into the loop
loop_after_reconnect(s) ==
    IF ~s.result[L].success THEN loop_exit(s)
    ELSE loop_sleep([s EXCEPT !.lv[L].tasks = @ + 1])

\* Periodic status updates
loop_status(s, due) ==
    IF due THEN get_status(Call(s, L, "l_status"), L) ELSE loop_health(s)

\* get_status() has returned into the loop
loop_after_status(s) == loop_health([s EXCEPT !.lv[L].tasks = @ + 1])

\* What the SDK's handle may offer for reading the device's print lines;
\* _process_frame_responses looks for each with hasattr.
Mechanisms == {"_print_responses", "get_print_responses", "read_print_buffer"}

\* The keywords of _process_frame_responses a print line contains as a
\* substring.
Keywords(line) ==
    CASE line = "TAP_DETECTED" -> {"TAP_DETECTED"}
      [] line = "CAPTURE_SUCCESS" -> {"CAPTURE_SUCCESS"}
      [] line = "MANUAL_CAPTURE_SUCCESS" -> {"CAPTURE_SUCCESS", "MANUAL_CAPTURE_SUCCESS"}
      [] line = "CAPTURE_ERROR: x" -> {"CAPTURE_ERROR"}
      [] line = "MANUAL_CAPTURE_ERROR: x" -> {"CAPTURE_ERROR"}
      [] line = "APP_LOOP_ERROR: x" -> {"APP_LOOP_ERROR"}
      [] line = "FRAME_APP_READY" -> {"FRAME_APP_READY"}
      [] line = "TAP_CALLBACK_REGISTERED" -> {"TAP_CALLBACK_REGISTERED"}
      [] line = "TAP_REGISTRATION_FAILED" -> {"TAP_REGISTRATION_FAILED"}
      [] line = "HEARTBEAT: loops=1 taps=0 battery=85.0" -> {"HEARTBEAT:"}
      [] line = "FRAME_INFO: battery=85.0 memory=45.2" -> {"FRAME_INFO:"}
      [] OTHER -> {}
\* Lines the application on the device prints.
PrintLines == {"TAP_DETECTED", "CAPTURE_SUCCESS", "MANUAL_CAPTURE_SUCCESS",
               "CAPTURE_ERROR: x", "MANUAL_CAPTURE_ERROR: x", "APP_LOOP_ERROR: x",
               "FRAME_APP_READY", "TAP_CALLBACK_REGISTERED",
               "TAP_REGISTRATION_FAILED", "TAP_REGISTRATION_ATTEMPT_1_FAILED: x",
               "HEARTBEAT: loops=1 taps=0 battery=85.0",
               "FRAME_INFO: battery=85.0 memory=45.2",
               "MANUAL_CAPTURE_BUSY", "FRAME_APP_STOPPING"}

\* The if/elif chains of the three methods, and the branch a line takes: the
\* first keyword of the chain it contains, if any.
Method1Chain == <<"TAP_DETECTED", "CAPTURE_SUCCESS", "MANUAL_CAPTURE_SUCCESS",
                  "CAPTURE_ERROR", "APP_LOOP_ERROR", "FRAME_APP_READY",
                  "TAP_CALLBACK_REGISTERED", "TAP_REGISTRATION_FAILED",
                  "HEARTBEAT:", "FRAME_INFO:", "TEXT_DISPLAYED:">>
Method2Chain == <<"TAP_DETECTED", "CAPTURE_SUCCESS", "MANUAL_CAPTURE_SUCCESS",
                  "CAPTURE_ERROR", "APP_LOOP_ERROR", "FRAME_APP_READY">>
Method3Chain == <<"TAP_DETECTED">>
Branch(chain, line) ==
    IF \E i \in DOMAIN chain : chain[i] \in Keywords(line)
    THEN chain[CHOOSE i \in DOMAIN chain :
                   /\ chain[i] \in Keywords(line)
                   /\ \A j \in 1..(i - 1) : chain[j] \notin Keywords(line)]
    ELSE ""

\* responses.remove(response): the first equal entry, if there is one
RemoveFirst(q, x) ==
    IF \E i \in DOMAIN q : q[i] = x
    THEN LET i == CHOOSE j \in DOMAIN q : q[j] = x /\ \A k \in 1..(j - 1) : q[k] # x
         IN  SubSeq(q, 1, i - 1) \o SubSeq(q, i + 1, Len(q))
    ELSE q

\* the list the loop iterates is the buffer of the frame it started with
RemoveResponse(s, x) ==
    IF s.lv[L].stale THEN s
    ELSE [s EXCEPT !.print_responses = RemoveFirst(@, x)]

\* A line that runs no handler is passed over.
Ignored(s, method, response) ==
    [Log(s, L, Ev("ignored", method, response)) EXCEPT !.lv[L].lines = Tail(@)]

\* Method 3: for line in buffer_content.strip().split('\n')
RECURSIVE loop_lines_3(_, _)
loop_lines_3(s, due) ==
    IF s.lv[L].lines = <<>> THEN loop_status(s, due)
    ELSE LET line == Head(s.lv[L].lines)
         IN  IF Branch(Method3Chain, line) = "TAP_DETECTED"
             THEN safe_callback(s, L, "tap", 0, line, "l_tap_cb")
             ELSE loop_lines_3(Ignored(s, 3, line), due)

\* Method 3 of _process_frame_responses: self.frame.read_print_buffer()
loop_responses_3(s, due) ==
    IF s.frame # None /\ "read_print_buffer" \in s.dev.sdk
    THEN loop_lines_3([s EXCEPT !.lv[L].method = 3,
                                !.lv[L].lines = s.dev.buffer,
                                !.dev.buffer = IF s.dev.consuming THEN <<>> ELSE @],
                      due)
    ELSE loop_status(s, due)

\* Method 2: for response in responses
RECURSIVE loop_lines_2(_, _)
loop_lines_2(s, due) ==
    IF s.lv[L].lines = <<>> THEN loop_responses_3(s, due)
    ELSE LET response == Head(s.lv[L].lines)
         IN  IF Branch(Method2Chain, response) = "TAP_DETECTED"
             THEN safe_callback(s, L, "tap", 0, response, "l_tap_cb")
             ELSE loop_lines_2(Ignored(s, 2, response), due)

\* resumed from wait_for(self.frame.get_print_responses(), timeout=0.01)
loop_responses_read(s, due, ok) ==
    IF ~ok THEN loop_responses_3(s, due)
    ELSE loop_lines_2([s EXCEPT !.lv[L].lines = s.dev.responses,
                                !.dev.responses = IF s.dev.consuming THEN <<>> ELSE @],
                      due)

\* Method 2 of _process_frame_responses: self.frame.get_print_responses()
loop_responses_2(s, due) ==
    IF s.frame # None /\ "get_print_responses" \in s.dev.sdk
    THEN Await([s EXCEPT !.lv[L].method = 2, !.lv[L].lines = <<>>],
               L, "l_responses", "get_print_responses")
    ELSE loop_responses_3(s, due)

\* loop_line_passed leaving the line in the list
loop_line_passed_kept(s, response) == Ignored(s, 1, response)

\* no branch of Method 1 runs a handler: responses.remove(response)
loop_line_passed(s, response) == RemoveResponse(Ignored(s, 1, response), response)

\* Method 1 of _process_frame_responses: for response in responses[:]
RECURSIVE loop_lines(_, _)
loop_lines(s, due) ==
    IF s.lv[L].lines = <<>> THEN loop_responses_2(s, due)
    ELSE LET response == Head(s.lv[L].lines)
             branch == Branch(Method1Chain, response)
         IN  IF branch = "TAP_DETECTED"
             THEN safe_callback(s, L, "tap", 0, response, "l_tap_cb")
             ELSE IF branch \in {"CAPTURE_ERROR", "APP_LOOP_ERROR",
                                 "TAP_REGISTRATION_FAILED"}
             THEN safe_callback(s, L, "error", 0, response, "l_err_cb")
             ELSE loop_lines(loop_line_passed(s, response), due)

\* resumed from the tap or error handler of a line: count it; Method 1
\* removes it from the list
loop_line_handled(s, due, counted) ==
    LET response == Head(s.lv[L].lines)
        s0 == IF s.lv[L].method = 1 THEN RemoveResponse(s, response) ELSE s
        s1 == [s0 EXCEPT !.lv[L].lines = Tail(@),
                         !.lv[L].tasks = IF counted THEN @ + 1 ELSE @]
    IN  CASE s.lv[L].method = 1 -> loop_lines(s1, due)
          [] s.lv[L].method = 2 -> loop_lines_2(s1, due)
          [] s.lv[L].method = 3 -> loop_lines_3(s1, due)

\* _process_frame_responses
loop_responses(s, due) ==
    LET s1 == Log(s, L, Ev("drained", Len(Items(s)),
                           IF s.g[L].added THEN "added"
                           ELSE IF s.g[L].disturbed THEN "disturbed" ELSE "clean"))
    IN  IF s1.frame = None THEN loop_status(s1, due)
        ELSE IF "_print_responses" \in s1.dev.sdk
        THEN loop_lines([s1 EXCEPT !.lv[L].lines = s1.print_responses,
                                   !.lv[L].method = 1,
                                   !.lv[L].stale = FALSE], due)
        ELSE loop_responses_2(s1, due)

\* loop_drain taking one photo an iteration: if, not while
loop_drain_one(s, due) ==
    IF s.pc[L] # "l_photo_cb" /\ s.photo_queue # None /\ s.queues[s.photo_queue] # <<>>
    THEN LET q == s.photo_queue
             jpeg_bytes == Head(s.queues[q])
             metadata == [resolution |-> DefaultResolution,
                          size_bytes |-> jpeg_bytes.size,
                          capture_count |-> s.capture_count + 1,
                          triggered_by |-> "tap"]
             s1 == [s EXCEPT !.queues[q] = Tail(@),
                             !.capture_count = @ + 1,
                             !.last_capture_time = jpeg_bytes.id,
                             !.lv[L].tasks = @ + 1]
         IN  [Log(s1, L, EvPhoto(jpeg_bytes, metadata)) EXCEPT !.pc[L] = "l_photo_cb"]
    ELSE loop_responses(s, due)

\* loop_drain reading the first photo of the queue without removing it
loop_drain_peek(s, due) ==
    IF s.photo_queue # None /\ s.queues[s.photo_queue] # <<>>
    THEN LET q == s.photo_queue
             jpeg_bytes == Head(s.queues[q])
             metadata == [resolution |-> DefaultResolution,
                          size_bytes |-> jpeg_bytes.size,
                          capture_count |-> s.capture_count + 1,
                          triggered_by |-> "tap"]
             s1 == [s EXCEPT !.capture_count = @ + 1,
                             !.last_capture_time = jpeg_bytes.id,
                             !.lv[L].tasks = @ + 1]
         IN  [Log(s1, L, EvPhoto(jpeg_bytes, metadata)) EXCEPT !.pc[L] = "l_photo_cb"]
    ELSE loop_responses(s, due)

\* while self.photo_queue and not self.photo_queue.empty()
loop_drain(s, due) ==
    IF s.photo_queue # None /\ s.queues[s.photo_queue] # <<>>
    THEN LET q == s.photo_queue
             jpeg_bytes == Head(s.queues[q])
             metadata == [resolution |-> DefaultResolution,
                          size_bytes |-> jpeg_bytes.size,
                          capture_count |-> s.capture_count + 1,
                          triggered_by |-> "tap"]
             s1 == [s EXCEPT !.queues[q] = Tail(@),
                             !.capture_count = @ + 1,
                             !.last_capture_time = jpeg_bytes.id,
                             !.lv[L].tasks = @ + 1]
         IN  [Log(s1, L, EvPhoto(jpeg_bytes, metadata)) EXCEPT !.pc[L] = "l_photo_cb"]
    ELSE loop_responses(s, due)

\* while self.is_running: one iteration
loop_iteration(s, due) ==
    IF ~s.is_running THEN loop_exit(s)
    ELSE loop_drain([s EXCEPT !.g[L] = [NoG EXCEPT !.startq = Items(s),
                                            !.stopped = s.g[L].stopped]], due)

run_event_loop(s, due) ==
    IF ~s.is_connected
    THEN [s EXCEPT !.pc[L] = "l_exited",
                   !.result[L] = [NoResult EXCEPT !.op = "run_event_loop",
                                      !.error = "Must connect to Frame glasses"]]
    ELSE loop_iteration([s EXCEPT !.is_running = TRUE, !.g[L].stopped = FALSE], due)

\* ------------------------------------------------------------- scheduling
\* A call that has returned resumes its caller in the same atomic step.
Continue(s, t) ==
    IF s.pc[t] # "return" THEN s
    ELSE LET k == Head(s.ret[t])
             s1 == [s EXCEPT !.ret[t] = Tail(@)]
         IN  CASE k = "idle" -> [s1 EXCEPT !.pc[t] = "returned"]
               [] k = "c_display" -> connect_done(s1, t)
               [] k = "r_status" -> request_frame_status_done(s1, t)
               [] k = "x_stop" -> stop_done(s1, t)
               [] k = "l_status" -> loop_after_status(s1)
               [] k = "l_reconnect" -> loop_after_reconnect(s1)

Fin(s, t) == Continue(Continue(Continue(s, t), t), t)

\* The loop is inside an iteration (not in its sleep, not stopped).
InIteration(s) == s.pc[L] \notin {"l_off", "l_exited", "l_sleep", "l_iter_end"}

\* Another task changed what self.photo_queue holds while the loop was in
\* an iteration.
Disturb(s, n, t) ==
    IF t # L /\ InIteration(s) /\ Items(n) # Items(s)
    THEN [n EXCEPT !.g[L].disturbed = TRUE] ELSE n

\* The histories and the result of a finished call, iteration or loop are not
\* program state: they are dropped (Forget) before any task or the device
\* takes its next step, so that every finished call is seen once, complete.
Finished(t) == pc[t] \in {"returned", "l_iter_end", "l_exited"}
Settled == \A t \in Tasks : ~Finished(t)

Step(t, n) == Settled /\ Commit(Collect(Disturb(S, Fin(n, t), t)))

Forget ==
    \E t \in Tasks :
        /\ Finished(t)
        /\ Commit([S EXCEPT
               !.pc[t] = CASE pc[t] = "returned" -> "idle"
                           [] pc[t] = "l_iter_end" -> "l_sleep"
                           [] pc[t] = "l_exited" -> "l_off",
               !.g[t] = [NoG EXCEPT !.stopped = g[t].stopped],
               !.cx[t] = NoCx, !.result[t] = NoResult,
               !.lv[t] = [NoLv EXCEPT !.prev = result[t].op]])

\* The outcomes of a device call: it may fail while the budget of failures
\* lasts.
Outcomes == IF faultsLeft > 0 THEN BOOLEAN ELSE {TRUE}
StepIO(t, n, ok) ==
    Step(t, [n EXCEPT !.faultsLeft = IF ok THEN @ ELSE @ - 1])

\* ----------------------------------------------------------------- actions
C == "caller"
\* A text of n characters whose first, 50th and later characters differ from
\* the rest.
Marked(n) ==
    [i \in 1..n |-> IF i = 1 THEN "x"
                    ELSE IF i = max_text_length THEN "y"
                    ELSE IF i > max_text_length THEN "z" ELSE "a"]
\* Texts: empty, white space only, short, of exactly the display's length,
\* one character longer, and "A" * 80.
Texts == {<<>>, <<" ", " ">>, <<"a", "b">>, Marked(max_text_length),
          Marked(max_text_length + 1), Rep("A", 80)}
Positions == {0, 1}

\* The calling task starts an operation when its previous one has returned.
Before(s) ==
    [is_connected |-> s.is_connected, frame |-> s.frame,
     photo_queue |-> s.photo_queue, is_running |-> s.is_running,
     connection_retry_count |-> s.connection_retry_count,
     capture_count |-> s.capture_count,
     last_capture_time |-> s.last_capture_time]
BeginOp(s, name, arg) ==
    [s EXCEPT !.g[C] = [NoG EXCEPT !.before = Before(s), !.arg = arg],
              !.cx[C] = NoCx,
              !.lv[C] = [NoLv EXCEPT !.op = name, !.prev = s.lv[C].prev],
              !.ret[C] = <<"idle">>, !.result[C] = NoResult,
              !.opsLeft = @ - 1]
CanCall == pc[C] = "idle" /\ opsLeft > 0

\* stop() is called while the loop is suspended inside an iteration: in a
\* handler, in a status query or in its sleep.
MidIteration == {"l_photo_cb", "l_tap_cb", "l_err_cb", "s_query", "s_cb", "l_sleep"}
StopSeen(s) ==
    IF s.pc[L] \in MidIteration /\ ~s.cx[L].active
    THEN [s EXCEPT !.g[L].stopped = TRUE] ELSE s

CallConnect(retries) ==
    /\ CanCall
    /\ \E n \in retries : Step(C, connect(BeginOp(S, "connect", n), C, n))
CallDisconnect ==
    /\ CanCall
    /\ \E detached \in Outcomes :
           StepIO(C, disconnect(BeginOp(S, "disconnect", None), C, detached), detached)
CallStop ==
    /\ CanCall
    /\ \E detached \in Outcomes :
           StepIO(C, stop(StopSeen(BeginOp(S, "stop", None)), C, detached), detached)
CallDisplayText ==
    /\ CanCall
    /\ \E text \in Texts, x \in Positions, y \in Positions :
           Step(C, display_text(
                       [BeginOp(S, "display_text", None) EXCEPT
                           !.g[C].args = [text |-> text, position_x |-> x,
                                          position_y |-> y]],
                       C, text, x, y))
CallCapturePhoto ==
    /\ CanCall
    /\ \E resolution \in Resolutions :
           Step(C, capture_photo(BeginOp(S, "capture_photo", resolution), C, resolution))
CallGetStatus ==
    /\ CanCall
    /\ Step(C, get_status(BeginOp(S, "get_status", None), C))
CallRequestFrameStatus ==
    /\ CanCall
    /\ Step(C, request_frame_status(BeginOp(S, "request_frame_status", None), C))
\* dues: whether the status interval has elapsed when an iteration reaches
\* its periodic status update
RunEventLoop(dues) ==
    /\ pc[L] = "l_off"
    /\ \E due \in dues : Step(L, run_event_loop(S, due))

\* connect(), resumed from each of its awaits
ConnectLinked(t) ==
    pc[t] = "c_connect" /\ \E ok \in Outcomes : StepIO(t, connect_linked(S, t, ok), ok)
ConnectBattery(t, replies) ==
    /\ pc[t] = "c_battery"
    /\ \E ok \in Outcomes, reply \in replies :
           StepIO(t, connect_battery(S, t, ok, reply), ok)
ConnectInitText(t) ==
    pc[t] = "c_init_text" /\ \E ok \in Outcomes : StepIO(t, connect_init_text(S, t, ok), ok)
ConnectLibs(t) ==
    pc[t] = "c_libs" /\ \E ok \in Outcomes : StepIO(t, connect_libs(S, t, ok), ok)
ConnectApp(t) ==
    pc[t] = "c_app" /\ \E ok \in Outcomes : StepIO(t, connect_app(S, t, ok), ok)
ConnectStarted(t) ==
    pc[t] = "c_start" /\ \E ok \in Outcomes : StepIO(t, connect_started(S, t, ok), ok)
ConnectAttached(t) ==
    /\ pc[t] = "c_attach"
    /\ \E ok \in Outcomes, made \in Outcomes :
           StepIO(t, connect_attached(S, t, ok, made), ok /\ made)
ValidateSent(t) ==
    pc[t] = "c_val_send" /\ \E ok \in Outcomes : StepIO(t, validate_sent(S, t, ok), ok)
ValidateReceived(t) ==
    pc[t] = "c_val_wait" /\ queues[lv[t].wq] # <<>> /\ Step(t, validate_received(S, t))
ValidateTimeout(t) ==
    /\ pc[t] = "c_val_wait" /\ queues[lv[t].wq] = <<>> /\ faultsLeft > 0
    /\ StepIO(t, validate_timeout(S, t), FALSE)
ConnectValidated(t) == pc[t] = "c_val_cb" /\ Step(t, connect_validated(S, t))
ConnectSettled(t) == pc[t] = "c_settle" /\ Step(t, connect_settled(S, t))
ConnectAfterErrcb(t) == pc[t] = "c_errcb" /\ Step(t, connect_after_errcb(S, t))
ConnectRetry(t) == pc[t] = "c_backoff" /\ Step(t, connect_retry(S, t))

\* display_text()
DisplayTextSent(t) ==
    pc[t] = "t_send" /\ \E ok \in Outcomes : StepIO(t, display_text_sent(S, t, ok), ok)
DisplayTextFailed(t) == pc[t] = "t_errcb" /\ Step(t, display_text_failed(S, t))

\* get_status()
GetStatusReplied(t, replies) ==
    /\ pc[t] = "s_query"
    /\ \E ok \in Outcomes, reply \in replies :
           StepIO(t, get_status_replied(S, t, ok, reply), ok)
GetStatusDone(t) == pc[t] = "s_cb" /\ Step(t, get_status_done(S, t))

\* request_frame_status()
RequestFrameStatusSent(t) ==
    pc[t] = "r_send" /\ \E ok \in Outcomes : StepIO(t, request_frame_status_sent(S, t, ok), ok)
RequestFrameStatusSlept(t) ==
    pc[t] = "r_sleep" /\ Step(t, request_frame_status_slept(S, t))
RequestFrameStatusFailed(t) ==
    pc[t] = "r_errcb" /\ Step(t, request_frame_status_failed(S, t))

\* capture_photo()
CapturePhotoSent(t) ==
    pc[t] = "p_send" /\ \E ok \in Outcomes : StepIO(t, capture_photo_sent(S, t, ok), ok)
CapturePhotoReceived(t) ==
    pc[t] = "p_wait" /\ queues[lv[t].wq] # <<>> /\ Step(t, capture_photo_received(S, t))
CapturePhotoTimeout(t) ==
    /\ pc[t] = "p_wait" /\ queues[lv[t].wq] = <<>> /\ faultsLeft > 0
    /\ StepIO(t, capture_photo_timeout(S, t), FALSE)
CapturePhotoDone(t) == pc[t] = "p_cb" /\ Step(t, capture_photo_done(S, t))
CapturePhotoFailed(t) == pc[t] = "p_errcb" /\ Step(t, capture_photo_failed(S, t))

\* disconnect()
DisconnectStopped(t) ==
    pc[t] = "d_stop_app" /\ \E ok \in Outcomes : StepIO(t, disconnect_stopped(S, t, ok), ok)
DisconnectClosed(t) ==
    pc[t] = "d_close" /\ \E ok \in Outcomes : StepIO(t, disconnect_closed(S, t, ok), ok)
DisconnectFailed(t) == pc[t] = "d_errcb" /\ Step(t, disconnect_failed(S, t))

\* run_event_loop()
LoopPhotoHandled(dues) ==
    pc[L] = "l_photo_cb" /\ \E due \in dues : Step(L, loop_drain(S, due))
LoopTapHandled(dues) ==
    pc[L] = "l_tap_cb" /\ \E due \in dues : Step(L, loop_line_handled(S, due, TRUE))
LoopErrorHandled(dues) ==
    pc[L] = "l_err_cb" /\ \E due \in dues : Step(L, loop_line_handled(S, due, FALSE))
LoopResponsesRead(dues) ==
    /\ pc[L] = "l_responses"
    /\ \E due \in dues, ok \in Outcomes :
           StepIO(L, loop_responses_read(S, due, ok), ok)
LoopWake(dues) ==
    pc[L] = "l_sleep" /\ \E due \in dues : Step(L, loop_iteration(S, due))

\* The handler a task is suspended in raises: _safe_callback catches it.
HandlerLabels ==
    {"t_errcb", "s_cb", "r_errcb", "p_cb", "p_errcb", "c_val_cb", "c_errcb",
     "d_errcb", "l_photo_cb", "l_tap_cb", "l_err_cb"}
History(s, t) == IF s.cx[t].active THEN s.cx[t].trace ELSE s.g[t].log
HandlerRaised(s, t) ==
    /\ s.pc[t] \in HandlerLabels
    /\ History(s, t) # <<>>
    /\ History(s, t)[Len(History(s, t))].k = "callback_error"
HandlerRaises(t) ==
    /\ pc[t] \in HandlerLabels
    /\ ~HandlerRaised(S, t)
    /\ Step(t, safe_callback_except(S, t))

\* The device: the photo of a capture request or of a tap reaches the
\* receiver's queue (or nobody, when no receiver is attached).
DevicePhoto(sizes) ==
    /\ Settled
    /\ dev.photos < MaxPhotos
    /\ \E size \in sizes, cause \in {"request", "tap"} :
        /\ IF cause = "request" THEN dev.req > 0 ELSE dev.taps > 0
        /\ LET photo == [id |-> dev.photos + 1, size |-> size, cause |-> cause]
               s1 == [S EXCEPT !.dev.photos = @ + 1,
                               !.dev.req = IF cause = "request" THEN @ - 1 ELSE @,
                               !.dev.taps = IF cause = "tap" THEN @ - 1 ELSE @]
               s2 == IF attached = None THEN s1
                     ELSE [s1 EXCEPT !.queues[attached] = Append(@, photo)]
               s3 == IF InIteration(S) /\ Items(s2) # Items(S)
                     THEN [s2 EXCEPT !.g[L].added = TRUE] ELSE s2
           IN  Commit(Collect(s3))

\* The application on the device prints a line: it becomes visible through
\* what the handle offers.
Emit(s, line) ==
    [s EXCEPT !.dev.lines = @ + 1,
              !.dev.tapped = IF "TAP_DETECTED" \in Keywords(line) THEN @ + 1 ELSE @,
              !.print_responses =
                  IF "_print_responses" \in s.dev.sdk THEN Append(@, line) ELSE @,
              !.dev.responses =
                  IF "get_print_responses" \in s.dev.sdk THEN Append(@, line) ELSE @,
              !.dev.buffer =
                  IF "read_print_buffer" \in s.dev.sdk THEN Append(@, line) ELSE @]
DeviceLine(lines) ==
    /\ Settled
    /\ dev.lines < MaxTaps
    /\ attached # None
    /\ \E line \in lines : Commit(Emit(S, line))

\* A tap on the device while the receiver is attached: on_tap() prints
\* TAP_DETECTED and takes a photo.
DeviceTap ==
    /\ Settled
    /\ dev.lines < MaxTaps
    /\ attached # None
    /\ Commit([Emit(S, "TAP_DETECTED") EXCEPT !.dev.taps = @ + 1])

\* ------------------------------------------------------ haptic_detector.py
\* A sensor reading is <<x, y, z>>.
Abs(n) == IF n < 0 THEN -n ELSE n
Sq(n) == n * n
Still == <<0, 0, 0>>

\* What the last call of _detect_light_tap was given, found and returned.
NoDetect == [called |-> FALSE, accel |-> Still, gyro |-> Still, stored |-> Still,
             time |-> 0, since |-> 0, result |-> FALSE]

\* A monitoring task: where it is suspended and its history since its last
\* sample.  pc and log of the detector are those of the task the model looks
\* at, other holds those of a second task, and ref says which of the two
\* self.monitoring_task refers to.
NoTask == [pc |-> "m_off", log |-> <<>>]

\* HapticDetector.__init__, then the thresholds as the application sets them
HapticDetector(accel, gyro) ==
    [is_connected |-> FALSE, is_monitoring |-> FALSE, touch_callback |-> FALSE,
     accel_threshold |-> accel, gyro_threshold |-> gyro,
     touch_cooldown |-> touch_cooldown, last_touch_time |-> 0,
     last_accel |-> Still, last_gyro |-> Still,
     frame |-> None, photo_queue |-> None,
     now |-> ClockStart, left |-> MaxSamples, last |-> NoDetect, taps |-> <<>>,
     pc |-> "m_off", queue |-> <<>>, req |-> 0, log |-> <<>>,
     other |-> NoTask, ref |-> "none"]

accel_change(stored, accel_data, i) == Abs(accel_data[i] - stored[i])
total_accel_change(stored, accel_data) ==
    accel_change(stored, accel_data, 1) + accel_change(stored, accel_data, 2)
        + accel_change(stored, accel_data, 3)
\* gyro_magnitude is a square root: it is compared through its square.
gyro_magnitude_sq(gyro_data) == Sq(gyro_data[1]) + Sq(gyro_data[2]) + Sq(gyro_data[3])

\* The criteria without the configured lower bound.
is_light_tap_unconfigured(h, accel_data, gyro_data) ==
    /\ total_accel_change(h.last_accel, accel_data) < UpperBound
    /\ gyro_magnitude_sq(gyro_data) < Sq(h.gyro_threshold)
    /\ total_accel_change(h.last_accel, accel_data) > MinimumChange
    /\ gyro_magnitude_sq(gyro_data) < Sq(MaximumGyro)
    /\ \E i \in 1..3 : accel_change(h.last_accel, accel_data, i) > AxisFloor

is_light_tap(h, accel_data, gyro_data) ==
    /\ total_accel_change(h.last_accel, accel_data) > h.accel_threshold
    /\ total_accel_change(h.last_accel, accel_data) < UpperBound
    /\ gyro_magnitude_sq(gyro_data) < Sq(h.gyro_threshold)
    /\ total_accel_change(h.last_accel, accel_data) > MinimumChange
    /\ gyro_magnitude_sq(gyro_data) < Sq(MaximumGyro)
    /\ \E i \in 1..3 : accel_change(h.last_accel, accel_data, i) > AxisFloor

\* A detection that leaves last_touch_time as it was.
touch_unstamped(h, current_time) == [h EXCEPT !.taps = Append(@, current_time)]

\* if is_light_tap: self.last_touch_time = current_time
touch_stamped(h, current_time) ==
    [h EXCEPT !.last_touch_time = current_time, !.taps = Append(@, current_time)]

\* _detect_light_tap: h.last.result is what it returns.
detect_light_tap(h, accel_data, gyro_data, current_time) ==
    LET seen == [called |-> TRUE, accel |-> accel_data, gyro |-> gyro_data,
                 stored |-> h.last_accel, time |-> current_time,
                 since |-> h.last_touch_time, result |-> FALSE]
    IN  IF current_time - h.last_touch_time < h.touch_cooldown
        THEN [h EXCEPT !.last = seen]
        ELSE LET tap == is_light_tap(h, accel_data, gyro_data)
                 h1 == [h EXCEPT !.last_accel = accel_data, !.last_gyro = gyro_data,
                                 !.last = [seen EXCEPT !.result = tap]]
             IN  IF tap THEN touch_stamped(h1, current_time) ELSE h1

\* Readings: at rest, noise, a change between 0.8 and 2.0, a light tap, a
\* diffuse vibration, a violent movement; a quiet head and a turning one.
AccelSamples ==
    {Still, <<5, 0, 0>>, <<15, 0, 0>>, <<25, 0, 0>>, <<7, 7, 7>>, <<60, 0, 0>>}
GyroSamples == {Still, <<2, 2, 0>>, <<5, 0, 0>>, <<8, 0, 0>>}
Delays == {1, touch_cooldown - 1}
AccelThresholds == {accel_threshold, 30}
GyroThresholds == {gyro_threshold, 2}

\* One sample is given to _detect_light_tap, some time after the last.
DetectLightTap(accels, gyros, delays) ==
    /\ hd.left > 0
    /\ \E accel_data \in accels, gyro_data \in gyros, d \in delays :
           LET h == [hd EXCEPT !.now = @ + d, !.left = @ - 1]
           IN  Commit([S EXCEPT !.hd = detect_light_tap(h, accel_data, gyro_data, h.now)])

\* connect_to_glasses, with no monitoring task running: every step succeeds,
\* or one fails after FrameMsg() and before the receiver is attached.
connect_to_glasses(h, ok) ==
    IF ok THEN [h EXCEPT !.frame = Handle, !.photo_queue = Handle, !.is_connected = TRUE]
    ELSE [h EXCEPT !.frame = Handle]

\* start_touch_monitoring: callback is None (FALSE) or a function (TRUE)
\* asyncio.create_task replaces the reference to a task that is running;
\* that task runs on.
start_touch_monitoring(h, callback) ==
    IF ~h.is_connected THEN h
    ELSE IF h.pc = "m_off"
    THEN [h EXCEPT !.touch_callback = callback, !.is_monitoring = TRUE,
                   !.pc = "m_start", !.ref = "focus"]
    ELSE [h EXCEPT !.touch_callback = callback, !.is_monitoring = TRUE,
                   !.other = [pc |-> h.pc, log |-> h.log],
                   !.pc = "m_start", !.log = <<>>, !.ref = "focus"]

\* stop_touch_monitoring: the cancelled task leaves at the await it is
\* suspended on (except asyncio.CancelledError: break).
stop_touch_monitoring(h) ==
    [h EXCEPT !.is_monitoring = FALSE,
              !.pc = IF h.ref = "focus" THEN "m_off" ELSE @,
              !.other.pc = IF h.ref = "other" THEN "m_off" ELSE @,
              !.ref = "none"]

\* The event loop runs the other monitoring task: the model looks at it.
monitor_switch(h) ==
    [h EXCEPT !.pc = h.other.pc, !.log = h.other.log,
              !.other = [pc |-> h.pc, log |-> h.log],
              !.ref = CASE h.ref = "focus" -> "other"
                        [] h.ref = "other" -> "focus"
                        [] OTHER -> "none"]

\* The history of the monitoring task since its last sample.
HLog(h, k, m) == [h EXCEPT !.log = Append(@, Ev(k, 0, m))]

\* await asyncio.sleep(0.05)
monitor_sleep(h) == [h EXCEPT !.pc = "m_sleep"]

\* _handle_touch_detected: the callback is called with the capture_result.
touch_callback(h, outcome) ==
    IF h.touch_callback THEN [HLog(h, "callback", outcome) EXCEPT !.pc = "m_cb"]
    ELSE monitor_sleep(h)

\* A failed capture that is tried once more.
handle_capture_failed_again(h, error) ==
    [HLog(HLog(h, "capture", ""), "io", "send_message 0x0d") EXCEPT !.pc = "m_send"]

\* if not capture_result.get("success"): report the failure and return
handle_capture_failed(h, error) == touch_callback(h, error)

\* _capture_photo, called first by _handle_touch_detected
haptic_capture_photo(h) ==
    LET h1 == HLog(h, "capture", "")
    IN  IF h1.frame = None \/ h1.photo_queue = None
        THEN handle_capture_failed(h1, "Frame connection or photo queue not established.")
        ELSE [HLog(h1, "io", "send_message 0x0d") EXCEPT !.pc = "m_send"]
haptic_capture_sent(h, ok) ==
    IF ok THEN [h EXCEPT !.pc = "m_wait", !.req = @ + 1]
    ELSE handle_capture_failed(h, "send_message failed")
\* jpeg_bytes arrived: _get_violation_count analyses them
haptic_capture_received(h) ==
    [HLog(h, "photo", "") EXCEPT !.queue = Tail(@), !.pc = "m_count"]
haptic_capture_timeout(h) == handle_capture_failed(h, "timeout")
handle_counted(h) == touch_callback(h, "success")
handle_called_back(h) == monitor_sleep(h)
\* the callback raised: except Exception in _handle_touch_detected calls it
\* again, with the error
handle_callback_raised(h) ==
    [HLog(h, "callback", "Touch handling error") EXCEPT !.pc = "m_cb_err"]
\* the second call returned, or raised into _monitor_accelerometer, which
\* sleeps and goes on
handle_error_called_back(h) == monitor_sleep(h)

handle_touch_detected(h) == haptic_capture_photo(h)

\* _monitor_accelerometer: while self.is_monitoring, up to the first await
monitor_poll(h) ==
    IF ~h.is_monitoring THEN [h EXCEPT !.pc = "m_off"]
    ELSE IF h.frame = None THEN monitor_sleep(h)
    ELSE [h EXCEPT !.pc = "m_accel"]
\* both readings are there: detect, and handle the tap
monitor_sampled(h, accel_data, gyro_data, current_time) ==
    LET h1 == detect_light_tap([h EXCEPT !.log = <<>>], accel_data, gyro_data, current_time)
    IN  IF h1.last.result THEN handle_touch_detected(HLog(h1, "tap", ""))
        ELSE monitor_sleep(h1)

\* The simulated readings: accelerometer within 0.5, gyroscope within 0.3.
SimulatedAccel == {<<5, 5, 5>>, <<-5, -5, -5>>}
SimulatedGyro == {Still}

HapticStep(h) == Commit([S EXCEPT !.hd = h])
HapticStepIO(h, ok) ==
    Commit([S EXCEPT !.hd = h, !.faultsLeft = IF ok THEN @ ELSE @ - 1])
ConnectToGlasses ==
    /\ hd.pc = "m_off" /\ ~hd.is_connected
    /\ \E ok \in Outcomes : HapticStepIO(connect_to_glasses(hd, ok), ok)
StartTouchMonitoring ==
    /\ hd.pc = "m_off" /\ ~hd.is_monitoring
    /\ \E callback \in BOOLEAN : HapticStep(start_touch_monitoring(hd, callback))
StopTouchMonitoring ==
    /\ hd.is_monitoring /\ hd.pc \notin {"m_off", "m_start"}
    /\ HapticStep(stop_touch_monitoring(hd))
\* start_touch_monitoring is called while a monitoring task is running
StartTouchMonitoringAgain ==
    /\ hd.is_connected
    /\ (hd.pc = "m_off") # (hd.other.pc = "m_off")
    /\ \E callback \in BOOLEAN : HapticStep(start_touch_monitoring(hd, callback))
MonitorSwitch ==
    /\ hd.other.pc # "m_off"
    /\ HapticStep(monitor_switch(hd))
MonitorPoll ==
    /\ hd.pc \in {"m_start", "m_sleep"}
    /\ HapticStep(monitor_poll(hd))
MonitorSampled(accels, gyros, delays) ==
    /\ hd.pc = "m_accel" /\ hd.left > 0
    /\ \E accel_data \in accels, gyro_data \in gyros, d \in delays :
           LET h == [hd EXCEPT !.now = @ + d, !.left = @ - 1]
           IN  HapticStep(monitor_sampled(h, accel_data, gyro_data, h.now))
MonitorSent ==
    /\ hd.pc = "m_send"
    /\ \E ok \in Outcomes : HapticStepIO(haptic_capture_sent(hd, ok), ok)
MonitorReceived ==
    /\ hd.pc = "m_wait" /\ hd.queue # <<>>
    /\ HapticStep(haptic_capture_received(hd))
MonitorTimeout ==
    /\ hd.pc = "m_wait" /\ hd.queue = <<>> /\ faultsLeft > 0
    /\ HapticStepIO(haptic_capture_timeout(hd), FALSE)
MonitorCounted == hd.pc = "m_count" /\ HapticStep(handle_counted(hd))
MonitorCalledBack == hd.pc = "m_cb" /\ HapticStep(handle_called_back(hd))
MonitorCallbackRaises == hd.pc = "m_cb" /\ HapticStep(handle_callback_raised(hd))
MonitorErrorCalledBack ==
    hd.pc = "m_cb_err" /\ HapticStep(handle_error_called_back(hd))
\* The device sends the photo of a capture request.
HapticDevicePhoto ==
    /\ hd.req > 0
    /\ HapticStep([hd EXCEPT !.req = @ - 1, !.queue = Append(@, MinPhotoBytes)])

\* ----------------------------------------------------------- specifications
InitSession(ops, faults, sdks, consumings) ==
    /\ frame = None
    /\ rx_photo = FALSE
    /\ photo_queue = None
    /\ is_connected = FALSE
    /\ is_running = FALSE
    /\ connection_retry_count = 0
    /\ capture_count = 0
    /\ last_capture_time = None
    /\ last_battery_level = None
    /\ last_memory_usage = ""
    /\ pc = [t \in Tasks |-> IF t = C THEN "idle" ELSE "l_off"]
    /\ ret = [t \in Tasks |-> <<>>]
    /\ cx = [t \in Tasks |-> NoCx]
    /\ lv = [t \in Tasks |-> NoLv]
    /\ result = [t \in Tasks |-> NoResult]
    /\ g = [t \in Tasks |-> NoG]
    /\ queues = [q \in QueueIds |-> <<>>]
    /\ attached = None
    /\ \E sdk \in sdks, consuming \in consumings :
           dev = [req |-> 0, taps |-> 0, photos |-> 0, lines |-> 0, tapped |-> 0,
                  sdk |-> sdk, consuming |-> consuming,
                  responses |-> <<>>, buffer |-> <<>>]
    /\ print_responses = <<>>
    /\ opsLeft = ops
    /\ faultsLeft = faults
\* A session whose handle keeps the device's lines in _print_responses.
InitFrame(ops, faults) == InitSession(ops, faults, {{"_print_responses"}}, {FALSE})
InitWith(ops, faults) ==
    InitFrame(ops, faults) /\ hd = HapticDetector(accel_threshold, gyro_threshold)

\* connect() resumed from the awaits of an attempt that goes well ...
ConnectProceed(t, replies) ==
    \/ ConnectLinked(t) \/ ConnectBattery(t, replies) \/ ConnectInitText(t)
    \/ ConnectLibs(t) \/ ConnectApp(t) \/ ConnectStarted(t)
    \/ ConnectAttached(t) \/ ValidateSent(t) \/ ValidateReceived(t)
    \/ ConnectValidated(t) \/ ConnectSettled(t) \/ DisplayTextSent(t)
\* ... and from those of one that does not
ConnectFailed(t) ==
    ValidateTimeout(t) \/ ConnectAfterErrcb(t) \/ DisplayTextFailed(t)
ConnectResume(t, replies) ==
    ConnectProceed(t, replies) \/ ConnectFailed(t) \/ ConnectRetry(t)

StatusResume(t, replies) == GetStatusReplied(t, replies) \/ GetStatusDone(t)

DisconnectProceed == DisconnectStopped(C) \/ DisconnectClosed(C)
DisconnectResume == DisconnectProceed \/ DisconnectFailed(C)

CaptureResume ==
    \/ CapturePhotoSent(C) \/ CapturePhotoReceived(C) \/ CapturePhotoTimeout(C)
    \/ CapturePhotoDone(C) \/ CapturePhotoFailed(C)

RequestResume ==
    \/ RequestFrameStatusSent(C) \/ RequestFrameStatusSlept(C)
    \/ RequestFrameStatusFailed(C)

LoopResume(dues) == RunEventLoop(dues) \/ LoopPhotoHandled(dues) \/ LoopWake(dues)

\* The calling task and the event-loop task on one session, with taps.
Init == InitWith(MaxLoopOps, MaxFaults)
Next ==
    \/ CallConnect({0}) \/ CallStop
    \/ ConnectResume(C, {FullReply}) \/ DisconnectResume
    \/ LoopResume(BOOLEAN) \/ LoopTapHandled(BOOLEAN)
    \/ ConnectResume(L, {FullReply}) \/ StatusResume(L, {FullReply})
    \/ DevicePhoto({MinPhotoBytes}) \/ DeviceTap
    \/ Forget
Spec == Init /\ [][Next]_vars

\* The calling task alone, every operation: run_event_loop() is never started.
InitSeq == InitWith(MaxOps, MaxFaults)
NextSeq ==
    \/ CallConnect({0}) \/ CallDisconnect \/ CallStop \/ CallDisplayText
    \/ CallCapturePhoto \/ CallGetStatus \/ CallRequestFrameStatus
    \/ ConnectProceed(C, StatusReplies) \/ ConnectFailed(C)
    \/ StatusResume(C, StatusReplies) \/ DisconnectResume
    \/ CaptureResume \/ RequestResume
    \/ DevicePhoto(PhotoSizes)
    \/ Forget
SpecSeq == InitSeq /\ [][NextSeq]_vars

\* The calling task alone, connecting with retries and disconnecting.
InitConnect == InitWith(MaxConnects, MaxRetries + 1)
NextConnect ==
    \/ CallConnect(0..MaxRetries) \/ CallDisconnect
    \/ ConnectResume(C, StatusReplies) \/ DisconnectResume
    \/ DevicePhoto(PhotoSizes)
    \/ Forget
SpecConnect == InitConnect /\ [][NextConnect]_vars

\* The calling task and the event-loop task with taps, where no device call
\* fails or times out.
InitDrain == InitWith(MaxLoopOps, 0)
NextDrain ==
    \/ CallConnect({0}) \/ CallStop
    \/ ConnectProceed(C, {FullReply}) \/ DisconnectProceed
    \/ LoopResume({FALSE}) \/ LoopTapHandled({FALSE})
    \/ ConnectProceed(L, {FullReply})
    \/ DevicePhoto({MinPhotoBytes}) \/ DeviceTap
    \/ Forget
SpecDrain == InitDrain /\ [][NextDrain]_vars

\* The calling task connects and captures, then the event loop runs with taps
\* and status updates; the registered handlers may raise.
InitHandler == InitWith(MaxLoopOps, MaxFaults)
LoopAfterCalls == opsLeft = 0 /\ pc[C] = "idle" /\ RunEventLoop({TRUE})
TapWhileRunning == is_running /\ DeviceTap
NextHandler ==
    \/ CallConnect({0}) \/ CallCapturePhoto
    \/ ConnectProceed(C, {FullReply}) \/ ConnectFailed(C) \/ CaptureResume
    \/ LoopAfterCalls
    \/ LoopPhotoHandled({TRUE}) \/ LoopWake({TRUE}) \/ LoopTapHandled({TRUE})
    \/ StatusResume(L, {FullReply})
    \/ DevicePhoto({MinPhotoBytes}) \/ TapWhileRunning
    \/ HandlerRaises(C) \/ HandlerRaises(L)
    \/ Forget
SpecHandler == InitHandler /\ [][NextHandler]_vars

\* The tap detector alone: samples given to _detect_light_tap, with the
\* thresholds at their defaults or set by the application.
InitTap ==
    /\ InitFrame(0, 0)
    /\ \E accel \in AccelThresholds, gyro \in GyroThresholds :
           hd = HapticDetector(accel, gyro)
NextTap == DetectLightTap(AccelSamples, GyroSamples, Delays)
SpecTap == InitTap /\ [][NextTap]_vars

\* The tap detector's monitoring task on simulated readings.
InitMonitor == InitFrame(0, MaxFaults) /\ hd = HapticDetector(accel_threshold, gyro_threshold)
NextMonitor ==
    \/ ConnectToGlasses \/ StartTouchMonitoring \/ StopTouchMonitoring
    \/ MonitorPoll \/ MonitorSampled(SimulatedAccel, SimulatedGyro, {0, touch_cooldown})
    \/ MonitorSent \/ MonitorReceived \/ MonitorTimeout
    \/ MonitorCounted \/ MonitorCalledBack
    \/ HapticDevicePhoto
SpecMonitor == InitMonitor /\ [][NextMonitor]_vars

\* The haptic detector with a touch callback that may raise.
InitCallback == InitMonitor
NextCallback ==
    \/ NextMonitor \/ MonitorCallbackRaises \/ MonitorErrorCalledBack
SpecCallback == InitCallback /\ [][NextCallback]_vars

\* The haptic detector with start_touch_monitoring called at any time.
InitRestart == InitMonitor
NextRestart == NextMonitor \/ StartTouchMonitoringAgain \/ MonitorSwitch
SpecRestart == InitRestart /\ [][NextRestart]_vars

\* The event loop reconnecting after a disconnect, where every attempt of
\* its connect() may fail.  The two tasks take turns: the calling task starts
\* no call while the loop reconnects, and the loop waits while a call runs.
InitReconnect == InitWith(MaxOps, LoopMaxRetries + 2)
CallerTurn == ~cx[L].active /\ (CallConnect({0}) \/ CallDisconnect)
LoopTurn == pc[C] = "idle" /\ (LoopResume({FALSE}) \/ ConnectResume(L, {FullReply}))
NextReconnect ==
    \/ CallerTurn
    \/ ConnectProceed(C, {FullReply}) \/ ConnectFailed(C) \/ DisconnectResume
    \/ LoopTurn
    \/ DevicePhoto({MinPhotoBytes})
    \/ Forget
SpecReconnect == InitReconnect /\ [][NextReconnect]_vars

\* A capture_photo call of the calling task waiting for its photo while the
\* event loop drains the same queue, with taps; no device call fails.
InitShare == InitWith(MaxLoopOps, 0)
NextShare ==
    \/ CallConnect({0}) \/ CallCapturePhoto
    \/ ConnectProceed(C, {FullReply})
    \/ CapturePhotoSent(C) \/ CapturePhotoReceived(C) \/ CapturePhotoDone(C)
    \/ LoopResume({FALSE}) \/ LoopTapHandled({FALSE})
    \/ DevicePhoto({MinPhotoBytes}) \/ DeviceTap
    \/ Forget
SpecShare == InitShare /\ [][NextShare]_vars

\* One connect() call of the calling task with up to MaxBackoffRetries
\* retries, where every attempt may fail.
InitBackoff == InitWith(1, MaxBackoffRetries + 1)
NextBackoff ==
    \/ CallConnect(0..MaxBackoffRetries)
    \/ ConnectResume(C, {FullReply})
    \/ DevicePhoto({MinPhotoBytes})
    \/ Forget
SpecBackoff == InitBackoff /\ [][NextBackoff]_vars

\* The calling task connects, then the event loop runs while the device
\* prints lines, for every choice of what the SDK's handle offers.
LineSamples == {"TAP_DETECTED", "CAPTURE_ERROR: x", "MANUAL_CAPTURE_ERROR: x", "APP_LOOP_ERROR: x",
                "TAP_REGISTRATION_FAILED", "MANUAL_CAPTURE_SUCCESS",
                "HEARTBEAT: loops=1 taps=0 battery=85.0", "FRAME_APP_STOPPING"}
InitLines ==
    /\ InitSession(1, 0, SUBSET Mechanisms, BOOLEAN)
    /\ hd = HapticDetector(accel_threshold, gyro_threshold)
NextLines ==
    \/ CallConnect({0}) \/ ConnectProceed(C, {FullReply})
    \/ RunEventLoop({FALSE}) \/ LoopWake({FALSE})
    \/ LoopTapHandled({FALSE}) \/ LoopErrorHandled({FALSE})
    \/ LoopResponsesRead({FALSE})
    \/ DevicePhoto({MinPhotoBytes}) \/ DeviceLine(LineSamples)
    \/ Forget
SpecLines == InitLines /\ [][NextLines]_vars

\* The event loop reconnecting while the calling task disconnects.
InitRace == InitWith(MaxRaceOps, MaxFaults)
NextRace ==
    \/ CallConnect({0}) \/ CallDisconnect \/ CallGetStatus
    \/ ConnectResume(C, {FullReply}) \/ StatusResume(C, {FullReply}) \/ DisconnectResume
    \/ LoopResume({FALSE}) \/ ConnectResume(L, {FullReply})
    \/ DevicePhoto({MinPhotoBytes})
    \/ Forget
SpecRace == InitRace /\ [][NextRace]_vars

\* -------------------------------------------------------------- properties
\* The calling task's operation op has just returned.
Returned(op) == pc[C] = "returned" /\ result[C].op = op
\* The session was not Ready when the calling task's operation began.
BeganNotReady == ~g[C].before.is_connected \/ g[C].before.frame = None
\* The history of the calling task's connect() call.
Trace == cx[C].trace
Attempts == SelectKind(Trace, "attempt")
Places(k) == {i \in DOMAIN Trace : Trace[i].k = k}
Success == Places("connected")
ErrorsBefore(i) == {j \in Places("error") : j < i}
ErrorsAfter(i) == {j \in Places("error") : j > i}
IoOf(log, m) == Cardinality({i \in DOMAIN log : log[i].k = "io" /\ log[i].m = m})

\* C2: for every max_retries = n, one call of connect() makes at most n+1
\* attempts, numbered in order; it makes no attempt after one that succeeded,
\* and when it returns failure every one of exactly n+1 attempts has failed.
C2_AtMostNPlusOneAttempts ==
    LET n == cx[C].max_retries
    IN  /\ Len(Attempts) <= n + 1
        /\ \A i \in DOMAIN Attempts : Attempts[i].n = i - 1
        /\ \A i \in Success, j \in Places("attempt") : j < i
        /\ Cardinality(Success) <= 1
        /\ Returned("connect") /\ result[C].success
               => /\ Cardinality(Success) = 1
                  /\ \A i \in Success :
                         /\ Trace[i].n = Len(Attempts) - 1
                         /\ Cardinality(ErrorsBefore(i)) = Len(Attempts) - 1
        /\ Returned("connect") /\ ~result[C].success
               => /\ Success = {}
                  /\ Len(Attempts) = n + 1
                  /\ Cardinality(Places("error")) = n + 1
C2_Witness ==
    /\ Returned("connect") /\ ~result[C].success
    /\ cx[C].max_retries = MaxRetries /\ Len(Attempts) = MaxRetries + 1

\* C3 as the specification states it: when the first k attempts fail and
\* attempt k+1 succeeds, connect returns success, the retry counter is 0 and
\* the error handler was invoked exactly k times.
C3_ExactlyKErrorCallbacks ==
    Returned("connect") /\ result[C].success
        => /\ connection_retry_count = 0
           /\ Cardinality(Places("error")) = Len(Attempts) - 1
\* C3, amended: when the first k attempts fail and attempt k+1 succeeds,
\* connect returns success, the retry counter is 0, the error handler was
\* invoked once for each of the k failed attempts, and at most once more:
\* when the send of the "Connected!" text fails after the attempt succeeded.
C3_KErrorCallbacksAndDisplay ==
    Returned("connect") /\ Success # {}
        => /\ result[C].success
           /\ connection_retry_count = 0
           /\ \A i \in Success :
                  /\ Cardinality(ErrorsBefore(i)) = Len(Attempts) - 1
                  /\ \A a \in 0..(Len(Attempts) - 2) :
                         Cardinality({j \in ErrorsBefore(i) : Trace[j].n = a}) = 1
                  /\ Cardinality(ErrorsAfter(i)) <= 1
                  /\ \A j \in ErrorsAfter(i) :
                         /\ Trace[j].m = "send_message failed"
                         /\ IoOf(cx[C].steps, "send_message 0x11") = 1
C3_Witness ==
    /\ Returned("connect") /\ result[C].success
    /\ Len(Attempts) = 2 /\ Cardinality(Places("error")) = 1

\* C4: when all n+1 attempts of connect(max_retries = n) fail on a session
\* whose retry counter was 0, connect returns failure with the message of the
\* last error and retry_count = n+1, and its history is: attempt i, the error
\* handler for attempt i, then (for i < n) the backoff sleep of 2^i seconds.
C4_FailureCarriesLastError ==
    LET n == cx[C].max_retries
    IN  Returned("connect") /\ ~result[C].success
            /\ g[C].before.connection_retry_count = 0
        => /\ Len(Trace) = 3 * (n + 1) - 1
           /\ \A i \in 0..n :
                  /\ Trace[3 * i + 1] = Ev("attempt", i, "")
                  /\ Trace[3 * i + 2].k = "error" /\ Trace[3 * i + 2].n = i
                  /\ i < n => Trace[3 * i + 3] = Ev("sleep", Pow2(i), "backoff")
           /\ Trace[Len(Trace)].m # ""
           /\ result[C].error = Trace[Len(Trace)].m
           /\ result[C].retry_count = n + 1
C4_Witness ==
    /\ Returned("connect") /\ ~result[C].success
    /\ g[C].before.connection_retry_count = 0
    /\ cx[C].max_retries = MaxRetries /\ result[C].retry_count = MaxRetries + 1

\* The history of the loop's current iteration, up to the end of its drain.
Drained == {i \in DOMAIN g[L].log : g[L].log[i].k = "drained"}
DrainLog(i) == SubSeq(g[L].log, 1, i - 1)
PhotoIds(log) == [j \in DOMAIN SelectKind(log, "photo") |-> SelectKind(log, "photo")[j].n]
QueueIdsOf(q) == [j \in DOMAIN q |-> q[j].id]

\* C1 as the specification states it: if N photos are queued when an
\* iteration begins and none is added during it, the iteration invokes the
\* photo handler exactly N times, in enqueue order, before it processes
\* protocol lines or sleeps, and leaves the queue empty.
C1_DrainsWholeQueue ==
    \A i \in Drained :
        g[L].log[i].m # "added"
            => /\ PhotoIds(DrainLog(i)) = QueueIdsOf(g[L].startq)
               /\ Len(DrainLog(i)) = Len(g[L].startq)
               /\ g[L].log[i].n = 0
\* C1, amended: if N photos are queued when an iteration begins, none is
\* added during it and no other task takes from or discards the queue while
\* the iteration drains it, the iteration invokes the photo handler exactly N
\* times, in enqueue order, each stamped triggered_by = tap, before it
\* processes protocol lines or sleeps, and leaves the queue empty.
C1_DrainsUndisturbedQueue ==
    \A i \in Drained :
        g[L].log[i].m = "clean"
            => /\ PhotoIds(DrainLog(i)) = QueueIdsOf(g[L].startq)
               /\ Len(DrainLog(i)) = Len(g[L].startq)
               /\ \A j \in DOMAIN DrainLog(i) : DrainLog(i)[j].m = "tap"
               /\ g[L].log[i].n = 0
C1_Witness ==
    \E i \in Drained :
        /\ g[L].log[i].m = "clean"
        /\ Len(g[L].startq) = 2
        /\ Len(DrainLog(i)) = 2

\* C5: an operation begun while the session is not Ready (is_connected false
\* or no device handle) sends nothing to the device; capture_photo,
\* display_text and request_frame_status return a not-connected failure and
\* get_status returns the cached snapshot with connected = false.
C5_NotReadyShortCircuits ==
    pc[C] = "returned" /\ BeganNotReady
        => /\ result[C].op \in {"capture_photo", "display_text", "request_frame_status"}
               => /\ ~result[C].success
                  /\ result[C].error = "Not connected to Frame glasses"
                  /\ CountKind(g[C].log, "io") = 0
           /\ result[C].op = "get_status"
               => /\ ~result[C].connected
                  /\ result[C].battery_level = last_battery_level
                  /\ result[C].memory_usage = last_memory_usage
                  /\ CountKind(g[C].log, "io") = 0

\* C6: after disconnect() returns, is_connected is false and the device
\* handle, the photo receiver and the photo queue are cleared, whether or not
\* a teardown step raised.
C6_DisconnectAlwaysResets ==
    Returned("disconnect")
        => ~is_connected /\ frame = None /\ ~rx_photo /\ photo_queue = None

\* C7: if stop() is called while the loop is suspended inside an iteration
\* (in a handler, a status query or the sleep), the loop starts no reconnect,
\* and once both have finished the session is disconnected and not running.
\* Stated for the behaviours in which no device call has failed, so that a
\* teardown error (C6) plays no part.
StopFinished ==
    \/ Returned("stop")
    \/ pc[C] = "idle" /\ lv[C].prev = "stop"
C7_StopEndsLoop ==
    g[L].stopped /\ faultsLeft = MaxFaults
        => /\ ~cx[L].active
           /\ pc[L] \in {"l_off", "l_exited"} /\ StopFinished
                  => ~is_connected /\ frame = None /\ ~is_running

\* C8: stop() is idempotent: a stop() that follows a completed stop() does no
\* device I/O and leaves is_running false, is_connected false, the handle
\* and the queue cleared.
C8_StopIdempotent ==
    Returned("stop") /\ lv[C].prev = "stop"
        => /\ CountKind(g[C].log, "io") = 0
           /\ CountKind(g[C].log, "error") = 0
           /\ ~is_running /\ ~is_connected /\ frame = None /\ photo_queue = None

\* C9: a capture_photo call that receives a payload within the timeout
\* raises capture_count by exactly 1, invokes the photo handler exactly once,
\* with triggered_by = manual and the requested (or default) resolution, and
\* returns success with that payload.
Requested == IF g[C].arg # None THEN g[C].arg ELSE DefaultResolution
C9_OneManualCapture ==
    /\ pc[C] = "p_cb" => CountKind(g[C].log, "photo") = 1
    /\ Returned("capture_photo") /\ CountKind(g[C].log, "photo") > 0
        => /\ result[C].success
           /\ capture_count = g[C].before.capture_count + 1
           /\ CountKind(g[C].log, "photo") = 1
           /\ \A e \in Range(SelectKind(g[C].log, "photo")) :
                  /\ e.meta.triggered_by = "manual"
                  /\ e.meta.resolution = Requested
                  /\ e.meta.capture_count = capture_count
                  /\ e.n = result[C].image.id
                  /\ e.meta.size_bytes = result[C].image.size
                  /\ result[C].meta = e.meta
    /\ Returned("capture_photo") /\ result[C].success
        => CountKind(g[C].log, "photo") = 1
C9_Witness ==
    /\ Returned("capture_photo") /\ result[C].success
    /\ g[C].arg = 1080 /\ g[C].before.capture_count > 0

\* C10: when no payload arrives within the timeout, capture_photo returns
\* failure with a timeout error after exactly one capture-settings message,
\* leaves capture_count and last_capture_time as they were and does not
\* invoke the photo handler.
TimedOut == result[C].error = "Timeout waiting for photo capture"
C10_TimeoutWithoutRetry ==
    Returned("capture_photo") /\ TimedOut
        => /\ ~result[C].success
           /\ IoOf(g[C].log, "send_message 0x0d") = 1
           /\ CountKind(g[C].log, "io") = 1
           /\ CountKind(g[C].log, "photo") = 0
           /\ capture_count = g[C].before.capture_count
           /\ last_capture_time = g[C].before.last_capture_time
C10_Witness ==
    /\ Returned("capture_photo") /\ TimedOut
    /\ g[C].before.capture_count > 0

\* What a task suspended in a handler does when the handler returns.
Resumed(s, t, due) ==
    CASE s.pc[t] = "p_cb" -> capture_photo_done(s, t)
      [] s.pc[t] = "p_errcb" -> capture_photo_failed(s, t)
      [] s.pc[t] = "c_val_cb" -> connect_validated(s, t)
      [] s.pc[t] = "c_errcb" -> connect_after_errcb(s, t)
      [] s.pc[t] = "t_errcb" -> display_text_failed(s, t)
      [] s.pc[t] = "s_cb" -> get_status_done(s, t)
      [] s.pc[t] = "l_photo_cb" -> loop_drain(s, due)
      [] s.pc[t] = "l_tap_cb" -> loop_line_handled(s, due, TRUE)
      [] OTHER -> s
\* A state without the records of the exceptions handlers raised.
Unmarked(log) == SelectSeq(log, LAMBDA e : e.k # "callback_error")
Calm(s) ==
    [s EXCEPT !.g = [t \in Tasks |-> [s.g[t] EXCEPT !.log = Unmarked(@)]],
              !.cx = [t \in Tasks |-> [s.cx[t] EXCEPT !.trace = Unmarked(@)]]]
Marks(s, t) ==
    CountKind(s.g[t].log, "callback_error") + CountKind(s.cx[t].trace, "callback_error")
Moved(t) ==
    pc'[t] # pc[t] \/ g'[t].log # g[t].log \/ cx'[t].trace # cx[t].trace

\* C11: an exception raised inside a registered handler is caught: raising
\* changes nothing of the session, and the task that invoked the handler (the
\* event loop, a capture_photo or a connect call) takes the same next step,
\* to the same state and result, as when the handler returns normally.
C11_HandlerErrorsSuppressed ==
    [][\A t \in Tasks :
          /\ Marks(S', t) > Marks(S, t) => Calm(S') = Calm(S)
          /\ HandlerRaised(S, t) /\ Moved(t)
                => \E due \in {TRUE} :
                       Calm(S') = Calm(Collect(Disturb(Calm(S),
                                     Fin(Resumed(Calm(S), t, due), t), t)))]_vars
C11_Witness ==
    /\ pc[L] = "l_iter_end" /\ is_running
    /\ CountKind(g[L].log, "tap") > 0 /\ CountKind(g[L].log, "photo") > 0
    /\ CountKind(g[L].log, "callback_error") > 1
    /\ lv[C].prev = "capture_photo" /\ capture_count > 2

\* C12: for every tap, the tap handler is invoked before the photo handler
\* that delivers the photo taken for that tap, also when the TAP_DETECTED
\* line and the photo are both pending when an iteration begins.  Stated for
\* the first tap: in the iteration that handles its line, no photo of a tap
\* that was queued at the start is delivered before the tap handler runs.
TapPhotoAtStart(e) ==
    /\ e.k = "photo"
    /\ \E q \in Range(g[L].startq) : q.id = e.n /\ q.cause = "tap"
C12_TapHandlerBeforePhotoHandler ==
    pc[L] = "l_iter_end" /\ dev.lines = 1
        => \A i \in DOMAIN g[L].log, j \in DOMAIN g[L].log :
               TapPhotoAtStart(g[L].log[i]) /\ g[L].log[j].k = "tap" => j < i

\* The last call of _detect_light_tap: the change it was given against the
\* stored sample, and whether it came outside the cooldown.
LastChange == total_accel_change(hd.last.stored, hd.last.accel)
LastAxis(i) == accel_change(hd.last.stored, hd.last.accel, i)
LastGyroSq == gyro_magnitude_sq(hd.last.gyro)
OutsideCooldown == hd.last.time - hd.last.since >= hd.touch_cooldown
\* The criteria as the code applies them, also for a sample in the cooldown.
Qualifying ==
    /\ LastChange > hd.accel_threshold /\ LastChange > MinimumChange
    /\ LastChange < UpperBound
    /\ LastGyroSq < Sq(hd.gyro_threshold) /\ LastGyroSq < Sq(MaximumGyro)
    /\ \E i \in 1..3 : LastAxis(i) > AxisFloor

\* C13: no two reported taps have detection times less than the cooldown
\* apart; a qualifying impulse less than the cooldown after a reported one is
\* not reported, and one outside the cooldown is.
C13_CooldownSeparatesTaps ==
    /\ \A i \in DOMAIN hd.taps, j \in DOMAIN hd.taps :
           i < j => hd.taps[j] - hd.taps[i] >= hd.touch_cooldown
    /\ hd.last.called /\ Qualifying
           => (hd.last.result <=> OutsideCooldown)
    /\ hd.last.called /\ hd.last.result
           => hd.taps # <<>> /\ hd.taps[Len(hd.taps)] = hd.last.time
C13_Witness ==
    /\ hd.last.called /\ Qualifying /\ ~OutsideCooldown /\ ~hd.last.result
    /\ Len(hd.taps) = 1 /\ hd.last.time - hd.taps[1] = touch_cooldown - 1

\* C14: outside the cooldown a tap is reported exactly when the summed change
\* lies strictly between the configured accel_threshold and 5.0, the
\* gyroscope magnitude is below the configured gyro_threshold and at least
\* one single-axis change exceeds 0.8.
C14_TapIffWithinConfiguredBand ==
    hd.last.called /\ OutsideCooldown
        => (hd.last.result <=>
               /\ LastChange > hd.accel_threshold /\ LastChange < UpperBound
               /\ LastGyroSq < Sq(hd.gyro_threshold)
               /\ \E i \in 1..3 : LastAxis(i) > AxisFloor)

\* C15: a sample whose summed change against the stored sample is below the
\* configured lower bound is never reported as a tap, whatever the gyroscope
\* reads and whenever it comes.
C15_NoiseNeverTaps ==
    hd.last.called /\ LastChange < hd.accel_threshold
        => ~hd.last.result /\ (hd.taps # <<>> => hd.taps[Len(hd.taps)] # hd.last.time)
C15_Witness ==
    /\ hd.last.called /\ OutsideCooldown /\ ~hd.last.result
    /\ hd.accel_threshold = 30 /\ LastChange = 25 /\ LastGyroSq = 0

\* C16: when the detector accepts a tap, the touch callback is invoked
\* before the capture request for that tap is sent to the device.
C16_CallbackBeforeCaptureRequest ==
    \A i \in DOMAIN hd.log :
        hd.log[i].k = "io"
            => \E j \in 1..(i - 1) : hd.log[j].k = "callback"

\* C17: every tap the monitoring loop accepts results in exactly one call
\* of _capture_photo, whether the capture succeeds, fails or times out.
Accepted == CountKind(hd.log, "tap")
C17_OneCapturePerTap ==
    /\ CountKind(hd.log, "capture") = Accepted
    /\ Accepted <= 1
    /\ hd.last.called /\ hd.last.result /\ hd.pc # "m_off" => Accepted = 1
C17_Witness ==
    /\ Accepted = 1 /\ hd.pc = "m_sleep"
    /\ hd.log[Len(hd.log)] = Ev("callback", 0, "timeout")
    /\ Len(hd.taps) = 2

\* The device calls of one connect attempt, in the order of the code.
ConnectOrder ==
    <<"connect", "send_lua", "print_short_text", "upload_stdlua_libs",
      "upload_frame_app", "start_frame_app", "rx_photo.attach", "send_message 0x0d">>
IoNames(steps) == [i \in DOMAIN steps |-> steps[i].m]
IsPrefix(a, b) == Len(a) <= Len(b) /\ a = SubSeq(b, 1, Len(a))
Failing == Len(cx'[C].trace) > Len(Trace) /\ cx'[C].trace[Len(cx'[C].trace)].k = "error"

IoFailed == result[C].error \in {"send_message failed", "send_lua failed"}
C19_IoFailureLeavesReady ==
    (/\ pc[C] = "returned"
     /\ result[C].op \in {"capture_photo", "display_text", "get_status"}
     /\ ~BeganNotReady /\ IoFailed)
        => ~is_connected

\* The loop's reconnect has just returned.
Reconnected(ok) ==
    /\ pc[L] \in {"l_exited", "l_iter_end"}
    /\ result[L].op = "connect" /\ result[L].success = ok
\* C20: when the loop finds the session not connected and its reconnect
\* fails, the loop stops and is_running is false while it is stopped; when the
\* reconnect succeeds, the loop continues with further iterations.
C20_ReconnectDecidesLoop ==
    /\ Reconnected(FALSE) => pc[L] = "l_exited" /\ ~is_running
    /\ pc[L] \in {"l_off", "l_exited"} => ~is_running
    /\ Reconnected(TRUE) => pc[L] = "l_iter_end" /\ is_running

\* The calling task's connect() began after an earlier connect() had
\* succeeded: capture_count is positive only once a connect has accepted its
\* validation payload, and a connect that has accepted it returns success.
ConnectedBefore == g[C].before.capture_count > 0
\* C21: the validation capture is requested only during the first successful
\* connect: a connect() begun after an earlier one has succeeded sends no
\* capture request.
C21_ValidationOnlyOnFirstConnect ==
    cx[C].active /\ ConnectedBefore
        => IoOf(cx[C].steps, "send_message 0x0d") = 0

\* The current attempt of the calling task's connect() has just rejected its
\* validation payload as too small.
TooSmall ==
    /\ pc[C] = "c_errcb"
    /\ cx[C].last_error = "Photo capture validation failed: Invalid photo data"
Args == g[C].args
Displayed == Returned("display_text") /\ ~BeganNotReady
BadPosition == Args.position_x < 1 \/ Args.position_y < 1
\* C24: on a connected session, display_text with position_x < 1 or
\* position_y < 1 returns success = false and sends no message to the device.
C24_BadPositionSendsNothing ==
    Displayed /\ BadPosition
        => /\ ~result[C].success
           /\ result[C].error = "Position coordinates must be positive integers"
           /\ CountKind(g[C].log, "io") = 0
           /\ CountKind(g[C].log, "error") = 0
C24_Witness ==
    /\ Displayed /\ Args.position_x = 1 /\ Args.position_y = 0
    /\ Args.text = <<"a", "b">>

\* The first n characters of a text.
Prefix(text, n) == SubSeq(text, 1, IF Len(text) < n THEN Len(text) ELSE n)
\* C25: for every non-empty text, display_text sends and reports as displayed
\* exactly the first min(len(text), 50) characters of the text, and reports
\* truncated = true exactly when len(text) > 50.
C25_DisplaysFirstFiftyCharacters ==
    Displayed /\ result[C].success /\ Args.text # <<>>
        => /\ result[C].text_displayed = Prefix(Args.text, max_text_length)
           /\ lv[C].shown = result[C].text_displayed
           /\ IoOf(g[C].log, "send_message 0x11") = 1
           /\ result[C].truncated = (Len(Args.text) > max_text_length)

\* C26: the original_text of a successful display_text result is the text
\* the caller passed, for every input: empty, white space only and over-long
\* texts included.
C26_OriginalTextIsTheArgument ==
    Displayed /\ result[C].success => result[C].original_text = Args.text

\* C27: display_text never raises on a connected session: when the send to
\* the device fails it returns success = false with the error text, has
\* invoked the error handler once, and leaves the session state unchanged.
C27_SendFailureIsReturned ==
    /\ Displayed /\ ~BadPosition
        => \/ result[C].success /\ CountKind(g[C].log, "error") = 0
           \/ /\ ~result[C].success
              /\ result[C].error = "send_message failed"
              /\ CountKind(g[C].log, "error") = 1
    /\ Displayed /\ ~result[C].success
        => /\ result[C].error # ""
           /\ Before(S) = g[C].before
           /\ IoOf(g[C].log, "send_message 0x11") <= 1
C27_Witness ==
    /\ Displayed /\ result[C].error = "send_message failed"
    /\ Len(Args.text) > max_text_length

\* The session was fresh when the calling task's operation began: never
\* connected, nothing captured.
BeganFresh ==
    /\ ~g[C].before.is_connected /\ g[C].before.frame = None
    /\ g[C].before.capture_count = 0 /\ g[C].before.last_capture_time = None
\* The calling task's operation is its second, and its first was connect().
FirstAfterConnect == opsLeft = MaxOps - 2 /\ lv[C].prev = "connect"
\* C23: a successful connect() on a fresh session leaves capture_count at 0
\* and does not invoke the photo handler; the first successful capture_photo
\* after it makes capture_count 1.
C23_ConnectCapturesNothing ==
    /\ Returned("connect") /\ result[C].success /\ BeganFresh
        => capture_count = 0 /\ CountKind(Trace, "photo") = 0
    /\ Returned("capture_photo") /\ result[C].success /\ FirstAfterConnect
        => capture_count = 1 /\ result[C].meta.capture_count = 1

\* C28: disconnect() attempts every teardown step (detach the photo channel,
\* stop the application on the device, close the link) even when an earlier
\* step raises, and no teardown error reaches the caller.
C28_TeardownAttemptsEveryStep ==
    Returned("disconnect") /\ g[C].before.frame # None
        => /\ IoOf(g[C].log, "stop_frame_app") = 1
           /\ IoOf(g[C].log, "disconnect") = 1
           /\ g[C].before.photo_queue # None
                  => IoOf(g[C].log, "rx_photo.detach") = 1
           /\ result[C].error = ""

\* The photos waiting in the queues, and the photo events of a task.
QueuedIds(qs) == UNION {{qs[q][i].id : i \in DOMAIN qs[q]} : q \in QueueIds}
Handed(log, trace) == SelectKind(log, "photo") \o SelectKind(trace, "photo")
\* The step hands a photo to the photo handler in task t.
Delivers(t) ==
    Len(Handed(g'[t].log, cx'[t].trace)) > Len(Handed(g[t].log, cx[t].trace))
DeliveredId(t) ==
    LET photos == Handed(g'[t].log, cx'[t].trace) IN photos[Len(photos)].n
\* C29: each photo put into the photo queue is removed by at most one
\* consumer and reaches the photo handler at most once, however a waiting
\* capture_photo call and the event loop's drain interleave: the photos in
\* the queues are distinct, a photo enters a queue only when the device
\* makes it, and a step that hands a photo to the handler is the step of one
\* task that takes that one photo out of its queue for good.
C29_PhotoConsumedAtMostOnce ==
    [][/\ \A q \in QueueIds : \A i, j \in DOMAIN queues[q] :
              i # j => queues[q][i].id # queues[q][j].id
       /\ \A q, r \in QueueIds : \A i \in DOMAIN queues[q], j \in DOMAIN queues[r] :
              q # r => queues[q][i].id # queues[r][j].id
       /\ \A n \in QueuedIds(queues') \ QueuedIds(queues) :
              n = dev.photos + 1 /\ dev'.photos = n
       /\ \A n \in QueuedIds(queues) : n <= dev.photos
       /\ \A t \in Tasks :
              Delivers(t)
                  => /\ Len(Handed(g'[t].log, cx'[t].trace))
                            = Len(Handed(g[t].log, cx[t].trace)) + 1
                     /\ DeliveredId(t) \in QueuedIds(queues)
                     /\ DeliveredId(t) \notin QueuedIds(queues')
                     /\ \A u \in Tasks \ {t} : ~Delivers(u)]_vars
\* The event loop has taken the photo a waiting capture_photo call asked for.
C29_Witness ==
    /\ pc[C] = "p_wait" /\ dev.req = 0 /\ queues[lv[C].wq] = <<>>
    /\ pc[L] = "l_photo_cb" /\ CountKind(g[L].log, "photo") = 2

\* 2^i by repeated doubling.
RECURSIVE TwoTo(_)
TwoTo(i) == IF i = 0 THEN 1 ELSE 2 * TwoTo(i - 1)
Backoffs == {j \in Places("sleep") : Trace[j].m = "backoff"}
\* The error-handler calls of failed attempts: those not after the success.
FailedAt == {j \in Places("error") : \A i \in Success : j < i}
\* C30: within one connect(max_retries = n) call, after failed attempt i
\* (counted from 0) with i < n the call sleeps exactly 2^i seconds before
\* attempt i+1, and it does not sleep after the final failed attempt n.
C30_BackoffDoubles ==
    LET n == cx[C].max_retries
    IN  /\ \A j \in FailedAt :
               /\ Trace[j].n \in 0..n
               /\ Trace[j].n < n /\ (j < Len(Trace) \/ pc[C] # "c_errcb")
                      => /\ Len(Trace) > j
                         /\ Trace[j + 1] = Ev("sleep", TwoTo(Trace[j].n), "backoff")
               /\ Trace[j].n = n => j = Len(Trace)
        /\ \A j \in Backoffs :
               /\ j - 1 \in FailedAt
               /\ j < Len(Trace) \/ pc[C] # "c_backoff"
                      => /\ Len(Trace) > j
                         /\ Trace[j + 1] = Ev("attempt", Trace[j - 1].n + 1, "")
        /\ \A j \in Places("attempt") :
               Trace[j].n > 0
                   => j > 1 /\ Trace[j - 1] = Ev("sleep", TwoTo(Trace[j].n - 1), "backoff")
        /\ Returned("connect") /\ ~result[C].success
               => Cardinality(Backoffs) = n /\ Trace[Len(Trace)].k = "error"
C30_Witness ==
    /\ Returned("connect") /\ ~result[C].success
    /\ cx[C].max_retries = MaxBackoffRetries
    /\ Cardinality(Backoffs) = MaxBackoffRetries
    /\ \E j \in Backoffs : Trace[j].n = 4


\* The calling task's operation began on a session that a disconnect() had
\* just reset: disconnect() was the previous call and it cleared the handle.
AfterDisconnect ==
    lv[C].prev = "disconnect" /\ ~g[C].before.is_connected /\ g[C].before.frame = None

\* C32: an explicit disconnect() resets the connection record: a get_status()
\* that follows it reports no retry count, battery level or memory usage of
\* the connection that was closed.
C32_DisconnectResetsRecord ==
    Returned("get_status") /\ AfterDisconnect
        => /\ result[C].connection_retries = 0
           /\ result[C].battery_level = None
           /\ result[C].memory_usage = ""


\* C33: whenever connect() returns success = false the session is not
\* connected afterwards, also when connect() was called on a session that
\* was connected already.
C33_FailedConnectLeavesDisconnected ==
    Returned("connect") /\ ~result[C].success => ~is_connected


\* C34: when capture_photo() is called while the event loop is running, the
\* photo the device sends for that request is the one the call returns, with
\* triggered_by = manual; while the call waits, the photo the device has sent
\* for it stays in the queue for it and is not taken by the loop's drain.
C34_ManualPhotoReachesItsCaller ==
    /\ Returned("capture_photo") /\ result[C].success /\ g[C].before.is_running
        => /\ result[C].image.cause = "request"
           /\ result[C].meta.triggered_by = "manual"
    /\ pc[C] = "p_wait" /\ g[C].before.is_running /\ dev.req = 0
        => queues[lv[C].wq] # <<>>


\* The labels at which a task waits for the photo handler, and the step in
\* which task t consumes a photo: it takes it out of a queue for good and
\* goes to hand it to the handler.
PhotoHandlerLabels == {"c_val_cb", "p_cb", "l_photo_cb"}
LastPhoto(t) ==
    LET photos == Handed(g'[t].log, cx'[t].trace) IN photos[Len(photos)]
Consumes(t) ==
    /\ pc'[t] \in PhotoHandlerLabels
    /\ Handed(g'[t].log, cx'[t].trace) # <<>>
    /\ LastPhoto(t).n \in QueuedIds(queues) \ QueuedIds(queues')
Unmatched(line) == Branch(Method1Chain, line) = ""
PassedOver(method) ==
    {i \in DOMAIN g[L].log : g[L].log[i].k = "ignored" /\ g[L].log[i].n = method}
TapLines(q) == Cardinality({i \in DOMAIN q : "TAP_DETECTED" \in Keywords(q[i])})
Max(a, b) == IF a >= b THEN a ELSE b
Readable == Max(TapLines(print_responses),
                Max(TapLines(dev.responses), TapLines(dev.buffer)))
\* C36: each TAP_DETECTED line the device emits causes one invocation of the
\* tap callback and no more, also when the line is visible through several
\* retrieval mechanisms or stays in a buffer across iterations: when an
\* iteration ends, the tap callbacks it made and the tap lines still readable
\* are together no more than the tap lines emitted so far.
C36_OneCallbackPerTapLine ==
    pc[L] = "l_iter_end"
        => CountKind(g[L].log, "tap") + Readable <= dev.tapped


\* The error lines and the lines that only report of the device application.
ErrorLines == {"CAPTURE_ERROR: x", "MANUAL_CAPTURE_ERROR: x", "APP_LOOP_ERROR: x",
               "TAP_REGISTRATION_FAILED"}
ReportLines == {"CAPTURE_SUCCESS", "MANUAL_CAPTURE_SUCCESS", "FRAME_APP_READY",
                "HEARTBEAT: loops=1 taps=0 battery=85.0",
                "FRAME_INFO: battery=85.0 memory=45.2"}
\* C37: every CAPTURE_ERROR, MANUAL_CAPTURE_ERROR, APP_LOOP_ERROR or
\* TAP_REGISTRATION_FAILED line the event loop goes through invokes the
\* error callback, whichever mechanism delivered it (none is passed over),
\* and success, ready, heartbeat and info lines invoke no handler.
C37_ErrorLinesReachErrorCallback ==
    \A i \in DOMAIN g[L].log :
        /\ g[L].log[i].k = "ignored" => g[L].log[i].m \notin ErrorLines
        /\ g[L].log[i].k \in {"tap", "error"} => g[L].log[i].m \notin ReportLines
        /\ g[L].log[i].k = "tap" => g[L].log[i].m \notin ErrorLines


\* The monitoring task has finished handling an accepted tap, with a touch
\* callback registered.
TapHandled ==
    hd.pc = "m_sleep" /\ CountKind(hd.log, "tap") = 1 /\ hd.touch_callback
\* C38: the haptic detector invokes the touch callback exactly once for every
\* accepted tap, with success = true when the capture succeeded and
\* success = false when it failed, also when the callback itself raises.
C38_OneTouchCallbackPerTap ==
    TapHandled
        => /\ CountKind(hd.log, "callback") = 1
           /\ \A i \in DOMAIN hd.log :
                  hd.log[i].k = "callback"
                      => (hd.log[i].m = "success" <=> CountKind(hd.log, "photo") = 1)


\* The monitoring loops that have just requested a capture.
Requesting(h) ==
    (IF h.pc = "m_send" THEN 1 ELSE 0) + (IF h.other.pc = "m_send" THEN 1 ELSE 0)
\* C39: for any sequence of start_touch_monitoring and stop_touch_monitoring
\* calls at most one monitoring loop is active at a time, and once
\* stop_touch_monitoring has returned (and until monitoring is started again)
\* no monitoring loop evaluates a further sample or requests a further
\* capture.
C39_OneMonitoringLoop ==
    [][/\ hd.pc = "m_off" \/ hd.other.pc = "m_off"
       /\ ~hd.is_monitoring /\ ~hd'.is_monitoring
              => hd'.left = hd.left /\ Requesting(hd') <= Requesting(hd)]_vars
====
